---- MODULE Spec2Model ----
(***************************************************************************)
(* A model of the CouchDB client library: the exception taxonomy           *)
(* (couchdb/exceptions.py), the two Session wrappers (couchdb/client.py,   *)
(* couchdb/session.py) and the Server / Database facades                   *)
(* (couchdb/client.py), running against a CouchDB server that is modelled  *)
(* as the environment.                                                     *)
(*                                                                         *)
(* Conventions.  A Python dict is a function from its keys; a key that is  *)
(* absent from the dict is absent from the DOMAIN.  Document ids and       *)
(* revisions are positive integers, and 0 stands for None / "no value".    *)
(* An exception is a record [cls, status_code, message].                   *)
(***************************************************************************)
EXTENDS Integers, Sequences, FiniteSets, TLC

\* Bounds of the model: the number of document ids of the database where
\* the caller works on one document (MaxDocIds) and where it works on two
\* (MaxIds), the highest revision of a document, the highest HTTP status.
MaxDocIds == 1
MaxIds == 2
MaxRev == 2
MaxStatus == 599

\* The caller's document objects.
Objs == {"o1", "o2"}

(***************************************************************************)
(* couchdb/exceptions.py                                                   *)
(***************************************************************************)

\* The class hierarchy: each class and its direct bases.  The "requests."
\* classes are the transport's own exceptions, as Session.request names
\* them in its except clauses.
Bases ==
  [c \in {"Exception", "CouchDBException", "UpdateConflict", "MissingResource",
          "MissingDocument", "MissingDatabase", "MissingView", "DatabaseExists",
          "LoginFailed", "RequestsException", "Timeout", "HTTPError",
          "HTTPBadRequest", "HTTPUnauthorized", "HTTPForbidden", "HTTPNotFound",
          "HTTPConflict", "HTTPPreconditionFailed",
          "requests.RequestException", "requests.HTTPError",
          "requests.ConnectionError", "requests.Timeout",
          "requests.ConnectTimeout", "requests.ReadTimeout",
          "TypeError", "ValueError", "KeyError", "AssertionError",
          "StopIteration", "NotImplementedError", "AttributeError"} |->
     CASE c = "Exception" -> {}
       [] c \in {"TypeError", "ValueError", "KeyError", "AssertionError",
                 "StopIteration", "NotImplementedError",
                 "AttributeError"} -> {"Exception"}
       [] c = "CouchDBException" -> {"Exception"}
       [] c \in {"UpdateConflict", "MissingResource", "DatabaseExists",
                 "LoginFailed", "RequestsException"} -> {"CouchDBException"}
       [] c \in {"MissingDocument", "MissingDatabase", "MissingView"} -> {"MissingResource"}
       [] c \in {"Timeout", "HTTPError"} -> {"RequestsException"}
       [] c \in {"HTTPBadRequest", "HTTPUnauthorized", "HTTPForbidden", "HTTPNotFound",
                 "HTTPConflict", "HTTPPreconditionFailed"} -> {"HTTPError"}
       [] c = "requests.RequestException" -> {"Exception"}
       [] c \in {"requests.HTTPError", "requests.ConnectionError",
                 "requests.Timeout"} -> {"requests.RequestException"}
       [] c = "requests.ConnectTimeout" -> {"requests.ConnectionError", "requests.Timeout"}
       [] c = "requests.ReadTimeout" -> {"requests.Timeout"}]

RECURSIVE issubclass(_, _)
issubclass(c, d) == c = d \/ \E b \in Bases[c] : issubclass(b, d)

\* isinstance(exc, cls), as an except clause tests it.
isinstance(exc, cls) == issubclass(exc.cls, cls)

\* Any exception that carries no HTTP status (CouchDBException and the
\* classes that add nothing to it), raised with a message.
CouchDBException(cls, message) ==
  [cls |-> cls, status_code |-> 0, message |-> message]

NoExc == [cls |-> "", status_code |-> 0, message |-> ""]

\* An exception of one of Python's own classes, as the interpreter raises it.
Builtin(cls, message) == [cls |-> cls, status_code |-> 0, message |-> message]

\* HTTPError.__init__: message "" stands for None (both are falsy).
HTTPError(cls, status_code, message) ==
  [cls |-> cls, status_code |-> status_code,
   message |-> IF message # "" THEN message
               ELSE "HTTP error " \o ToString(status_code)]

\* The six subclasses of HTTPError: the class attribute status_code and the
\* default message of __init__.
HTTPBadRequest == [cls |-> "HTTPBadRequest", status_code |-> 400, message |-> "Bad Request"]
HTTPUnauthorized == [cls |-> "HTTPUnauthorized", status_code |-> 401, message |-> "Unauthorized"]
HTTPForbidden == [cls |-> "HTTPForbidden", status_code |-> 403, message |-> "Forbidden"]
HTTPNotFound == [cls |-> "HTTPNotFound", status_code |-> 404, message |-> "Not Found"]
HTTPConflict == [cls |-> "HTTPConflict", status_code |-> 409, message |-> "Conflict"]
HTTPPreconditionFailed ==
  [cls |-> "HTTPPreconditionFailed", status_code |-> 412, message |-> "Precondition failed"]

\* Calling one of the six classes with no argument:
\* super().__init__(self.__class__.status_code, message).
New(class) == HTTPError(class.cls, class.status_code, class.message)

HTTPErrorClasses ==
  {HTTPBadRequest, HTTPUnauthorized, HTTPForbidden, HTTPNotFound, HTTPConflict,
   HTTPPreconditionFailed}

\* _http_error_lookup = {exc.status_code: exc for exc in [...]}
_http_error_lookup ==
  [c \in {class.status_code : class \in HTTPErrorClasses} |->
     CHOOSE class \in HTTPErrorClasses : class.status_code = c]

Mut_http_error_lookup(status_code, message) ==
  IF status_code \in DOMAIN _http_error_lookup /\ status_code < 412
  THEN New(_http_error_lookup[status_code])
  ELSE HTTPError("HTTPError", status_code, message)

http_error_lookup(status_code, message) ==
  IF status_code \in DOMAIN _http_error_lookup
  THEN New(_http_error_lookup[status_code])
  ELSE HTTPError("HTTPError", status_code, message)

(***************************************************************************)
(* The transport.  One HTTP exchange either fails in the transport         *)
(* (fault names the requests exception raised by the base session) or      *)
(* yields a response: its status, reason phrase and JSON body.             *)
(***************************************************************************)

Faults == {"requests.ConnectionError", "requests.ConnectTimeout", "requests.ReadTimeout"}

Reason(status) ==
  CASE status = 400 -> "Bad Request"
    [] status = 401 -> "Unauthorized"
    [] status = 403 -> "Forbidden"
    [] status = 404 -> "Object Not Found"
    [] status = 409 -> "Conflict"
    [] status = 412 -> "Precondition Failed"
    [] status = 500 -> "Internal Server Error"
    [] OTHER -> "OK"

\* A response, as the session receives it.  body is the decoded JSON.
Response(status, body) ==
  [fault |-> "none", status |-> status, reason |-> Reason(status), body |-> body]

\* A transport failure: no response.
Failure(fault) == [fault |-> fault, status |-> 0, reason |-> "", body |-> <<>>]

\* What a session's request() hands to its caller.
Returned(x) == [raised |-> FALSE, exc |-> NoExc, status |-> x.status, body |-> x.body]
Raised(exc, x) == [raised |-> TRUE, exc |-> exc, status |-> x.status, body |-> <<>>]

\* The except clauses of Session.request, tried in order, on the transport
\* exception t raised while handling exchange x.
Except(t, x) ==
  IF issubclass(t, "requests.HTTPError")
  THEN Raised(http_error_lookup(x.status, x.reason), x)
  ELSE IF issubclass(t, "requests.Timeout")
  THEN Raised(CouchDBException("Timeout", ""), x)
  ELSE IF issubclass(t, "requests.RequestException")
  THEN Raised(CouchDBException("RequestsException", ""), x)
  ELSE Raised(CouchDBException(t, ""), x)

\* Response.raise_for_status(): raises requests.HTTPError for 4xx and 5xx.
raise_for_status(x) == x.status >= 400

\* couchdb/client.py Session.request: the request and raise_for_status are
\* both inside the try block.
client_Session_request(x) ==
  IF x.fault # "none" THEN Except(x.fault, x)
  ELSE IF raise_for_status(x) THEN Except("requests.HTTPError", x)
  ELSE Returned(x)

\* couchdb/session.py Session.request: the request is made before the try
\* block, so what it raises propagates as it is.
session_Session_request(x) ==
  IF x.fault # "none" THEN Raised(CouchDBException(x.fault, ""), x)
  ELSE IF raise_for_status(x) THEN Except("requests.HTTPError", x)
  ELSE Returned(x)

(***************************************************************************)
(* The CouchDB server: the environment of the client.  srv.exists says     *)
(* whether the one database the model talks about exists; srv.docs[i] is   *)
(* the current revision of document i (0: never written) and whether it    *)
(* is live (not deleted), for every document id i the database can hold.   *)
(* srv.atts[i][k] is the content of the attachment that revision k of      *)
(* document i has ("": none); a document has at most the one attachment    *)
(* named FileName.                                                         *)
(* Each handler yields the response and the server's next state.           *)
(***************************************************************************)

Ids(s) == DOMAIN s.docs

\* The name of the database, as Database.path quotes it.
DbName == "db"

EmptyDocs(ids) == [i \in ids |-> [rev |-> 0, live |-> FALSE]]

\* No document has a revision, so none has an attachment.
EmptyAtts(ids) == [i \in ids |-> <<>>]

\* A database that holds nothing, or no database.
EmptyDb(exists, ids) ==
  [exists |-> exists, docs |-> EmptyDocs(ids), atts |-> EmptyAtts(ids)]

Answer(status, body, s) == [x |-> Response(status, body), srv |-> s]

Live(s, id) == s.exists /\ s.docs[id].live

doc_count(s) == Cardinality({i \in Ids(s) : s.docs[i].live})

\* Ids the server has never used: it draws the id of an id-less document
\* from them.
FreshIds(s) == {i \in Ids(s) : s.docs[i].rev = 0}
uuid(s) == CHOOSE i \in FreshIds(s) : \A j \in FreshIds(s) : i <= j

\* A write to document id that names revision rev (0: none) is accepted when
\* rev is the current revision, or when the document is not live and no
\* revision is named.
Accepts(s, id, rev) ==
  IF s.docs[id].live THEN rev = s.docs[id].rev
  ELSE rev = 0 \/ rev = s.docs[id].rev

Store(s, id, live) ==
  [s EXCEPT !.docs[id] = [rev |-> s.docs[id].rev + 1, live |-> live],
            !.atts[id] = Append(s.atts[id], "")]

\* HEAD /{db}
srv_head_db(s) == IF s.exists THEN Answer(200, <<>>, s) ELSE Answer(404, <<>>, s)

\* GET /{db}
srv_get_db(s) ==
  IF s.exists THEN Answer(200, [doc_count |-> doc_count(s)], s) ELSE Answer(404, <<>>, s)

\* PUT /{db}
srv_put_db(s) ==
  IF s.exists THEN Answer(412, <<>>, s)
  ELSE Answer(201, [ok |-> TRUE], EmptyDb(TRUE, Ids(s)))

\* DELETE /{db}
srv_delete_db(s) ==
  IF s.exists THEN Answer(200, [ok |-> TRUE], EmptyDb(FALSE, Ids(s)))
  ELSE Answer(404, <<>>, s)

\* HEAD or GET /{db}/{id}: the ETag header is the current revision.
srv_get_doc(s, id) ==
  IF Live(s, id)
  THEN Answer(200, [_id |-> id, _rev |-> s.docs[id].rev, ETag |-> s.docs[id].rev], s)
  ELSE Answer(404, <<>>, s)

\* The revision that the text of a rev parameter names (0: none that the
\* server knows).
RevOf(rev) ==
  IF \E k \in 1..(MaxRev + 1) : ToString(k) = rev
  THEN CHOOSE k \in 1..(MaxRev + 1) : ToString(k) = rev
  ELSE 0

\* The revisions k, k-1, ..., 1, as _revisions.ids lists them.
RECURSIVE revision_ids(_)
revision_ids(k) == IF k = 0 THEN <<>> ELSE <<k>> \o revision_ids(k - 1)

\* GET /{db}/{id} with query parameters: rev names the revision to return
\* (every revision of a document is kept while the database exists);
\* revs=true adds the revision history.
srv_get_doc_params(s, id, params) ==
  IF "rev" \in DOMAIN params
  THEN LET k == RevOf(params["rev"])
       IN IF s.exists /\ k >= 1 /\ k <= s.docs[id].rev
          THEN Answer(200, [_id |-> id, _rev |-> k], s)
          ELSE Answer(404, <<>>, s)
  ELSE IF ~Live(s, id) THEN Answer(404, <<>>, s)
  ELSE IF "revs" \in DOMAIN params /\ params["revs"] = "true"
  THEN Answer(200, [_id |-> id, _rev |-> s.docs[id].rev,
                    _revisions |-> [start |-> s.docs[id].rev,
                                    ids |-> revision_ids(s.docs[id].rev)]], s)
  ELSE srv_get_doc(s, id)

\* PUT /{db}/{id} with a document that names revision rev (0: none).
srv_put_doc(s, id, rev) ==
  IF ~s.exists THEN Answer(404, <<>>, s)
  ELSE IF ~Accepts(s, id, rev) THEN Answer(409, <<>>, s)
  ELSE Answer(201, [ok |-> TRUE, id |-> id, rev |-> s.docs[id].rev + 1], Store(s, id, TRUE))

\* POST /{db}: the id is the document's _id, or one the server draws.  With
\* batch=ok the server answers 202 at once, with the id and no rev, and
\* writes later; a write that would conflict is then dropped.
srv_post_doc(s, doc, batch) ==
  LET id == IF "_id" \in DOMAIN doc THEN doc["_id"] ELSE uuid(s)
      rev == IF "_rev" \in DOMAIN doc THEN doc["_rev"] ELSE 0
  IN IF ~s.exists THEN Answer(404, <<>>, s)
     ELSE IF batch
     THEN Answer(202, [ok |-> TRUE, id |-> id],
                 IF Accepts(s, id, rev) THEN Store(s, id, TRUE) ELSE s)
     ELSE IF ~Accepts(s, id, rev) THEN Answer(409, <<>>, s)
     ELSE Answer(201, [ok |-> TRUE, id |-> id, rev |-> s.docs[id].rev + 1],
                 Store(s, id, TRUE))

\* DELETE /{db}/{id}?rev=rev
srv_delete_doc(s, id, rev) ==
  IF ~Live(s, id) THEN Answer(404, <<>>, s)
  ELSE IF rev # s.docs[id].rev THEN Answer(409, <<>>, s)
  ELSE Answer(200, [ok |-> TRUE, id |-> id, rev |-> s.docs[id].rev + 1], Store(s, id, FALSE))

\* COPY /{db}/{src} with Destination: dest[?rev=rev]
srv_copy_doc(s, src, dest, rev) ==
  IF ~Live(s, src) THEN Answer(404, <<>>, s)
  ELSE IF ~Accepts(s, dest, rev) THEN Answer(409, <<>>, s)
  ELSE Answer(201, [ok |-> TRUE, id |-> dest, rev |-> s.docs[dest].rev + 1],
              Store(s, dest, TRUE))

\* The rows of _all_docs for the documents i, i+1, ...: one row for each
\* live document, in the order of the ids, with the document (here: its
\* revision) when include_docs is true.
RECURSIVE view_rows(_, _, _)
view_rows(s, i, include_docs) ==
  IF i \notin Ids(s) THEN <<>>
  ELSE (IF ~s.docs[i].live THEN <<>>
        ELSE IF include_docs
        THEN <<[id |-> i, key |-> i, value |-> s.docs[i].rev, doc |-> s.docs[i].rev]>>
        ELSE <<[id |-> i, key |-> i, value |-> s.docs[i].rev]>>)
       \o view_rows(s, i + 1, include_docs)

\* GET /{db}/{view} or /{db}/_design/{ddoc}/_view/{view}.  The database
\* holds no design document, so only the built-in _all_docs exists.
srv_get_view(s, q) ==
  IF s.exists /\ q.path = <<DbName, "_all_docs">>
  THEN Answer(200, [rows |-> view_rows(s, 1, "include_docs" \in DOMAIN q.params
                                              /\ q.params["include_docs"] = "true"),
                    total_rows |-> doc_count(s), offset |-> 0], s)
  ELSE Answer(404, <<>>, s)

\* The name of the one attachment a document can have (it is the name of
\* every upload), the names that are asked for, and what is uploaded: a
\* bytes b1, which has no name attribute, and an open file a.txt.
FileName == "a.txt"
FileNames == {FileName, "blob"}
Contents == {[bytes |-> "b1", name |-> ""], [bytes |-> "b2", name |-> FileName]}

\* PUT /{db}/{id}/{filename} with If-Match: the attachment is stored in a
\* new revision of the document when If-Match names the current one.
srv_put_att(s, q) ==
  LET rev == RevOf(q.headers["If-Match"])
  IN IF ~s.exists THEN Answer(404, <<>>, s)
     ELSE IF ~Accepts(s, q.id, rev) \/ rev = 0 THEN Answer(409, <<>>, s)
     ELSE Answer(201, [ok |-> TRUE, id |-> q.id, rev |-> s.docs[q.id].rev + 1],
                 [s EXCEPT !.docs[q.id] = [rev |-> s.docs[q.id].rev + 1, live |-> TRUE],
                           !.atts[q.id] = Append(s.atts[q.id], q.data)])

\* Whether revision rev of document id (0: its current revision, if it is
\* live) has the attachment filename.
HasAttachment(s, id, filename, rev) ==
  LET k == IF rev = 0 THEN s.docs[id].rev ELSE rev
  IN /\ s.exists
     /\ filename = FileName
     /\ rev = 0 => s.docs[id].live
     /\ k >= 1 /\ k <= Len(s.atts[id])
     /\ s.atts[id][k] # ""

\* GET /{db}/{id}/{filename}[?rev=rev]
srv_get_att(s, q) ==
  IF HasAttachment(s, q.id, q.sub[2], q.rev)
  THEN Answer(200, [content |-> s.atts[q.id][IF q.rev = 0 THEN s.docs[q.id].rev
                                             ELSE q.rev]], s)
  ELSE Answer(404, <<>>, s)

\* DELETE /{db}/{id}/{filename}?rev=rev: the attachment is removed in a
\* new revision of the document when rev names the current one; without a
\* rev the server answers with a conflict.
srv_delete_att(s, q) ==
  IF ~s.exists THEN Answer(404, <<>>, s)
  ELSE IF ~Accepts(s, q.id, q.rev) \/ q.rev = 0 THEN Answer(409, <<>>, s)
  ELSE IF ~HasAttachment(s, q.id, q.sub[2], 0) THEN Answer(404, <<>>, s)
  ELSE Answer(200, [ok |-> TRUE, id |-> q.id, rev |-> s.docs[q.id].rev + 1],
              [s EXCEPT !.docs[q.id] = [rev |-> s.docs[q.id].rev + 1, live |-> TRUE],
                        !.atts[q.id] = Append(s.atts[q.id], "")])

\* Every revision stays within the bound of the model.
Bounded(s) == \A i \in Ids(s) : s.docs[i].rev <= MaxRev

(***************************************************************************)
(* The state.                                                              *)
(*   srv   the server (see above)                                          *)
(*   obj   the caller's document objects: obj[o].items is the mapping the  *)
(*         object holds, obj[o].isdict whether it is a dict (a plain dict  *)
(*         or a couchdb.Document) or only a record that offers items()     *)
(*   pc    the call in progress, for the operations that send more than    *)
(*         one request: its name and what it keeps between the requests    *)
(*   last  the most recent call of the client and what came of it; the     *)
(*         empty call NoCall once another client has acted since           *)
(*   gen   the generator that the caller's last call of Database.revisions  *)
(*         returned: the code it has run so far and its local variables     *)
(*   servers   the caller's Server objects: servers[s]._url, ._session     *)
(*         (the name of the Session object it holds) and ._version_info    *)
(*   sessions  the Session objects: sessions[x] is the base_url of x       *)
(*   version   the version that the CouchDB server reports                 *)
(***************************************************************************)
VARIABLES srv, obj, pc, last, gen, servers, sessions, version

vars == <<srv, obj, pc, last, gen, servers, sessions, version>>

\* What the operations of Database leave alone.
more == <<servers, sessions, version>>

NoPc == [op |-> "", id |-> 0, rev |-> 0]

\* No generator: revisions() was not called.  at is "created" before the
\* first next(), "loop" inside the for loop and "finished" after the
\* generator returned or raised; id is its argument, startrev and ids its
\* locals (ids the number of entries of data['_revisions']['ids']) and index
\* the number of entries the loop has taken.
NoGen == [at |-> "", id |-> 0, startrev |-> 0, ids |-> 0, index |-> 0]

NoCall ==
  [op |-> "", impl |-> "", o |-> "", id |-> 0, arg |-> "", batch |-> FALSE,
   docs |-> <<>>, net |-> "none", status |-> 0, raised |-> FALSE, exc |-> NoExc,
   ret |-> "", rid |-> 0, rrev |-> 0, results |-> <<>>, nreq |-> 0,
   sent |-> <<>>, value |-> <<>>, kwargs |-> <<>>, name |-> <<>>]

\* No call is running and the caller has taken the result of the last one:
\* the caller may make its next call.
Idle == pc.op = "" /\ last = NoCall

\* What a call comes to: an exception raised to the caller, or a value
\* returned (ret names its kind; rid and rrev are the id and revision in it,
\* value what else it holds).
Raise(exc) ==
  [raised |-> TRUE, exc |-> exc, ret |-> "", rid |-> 0, rrev |-> 0, value |-> <<>>]
Return(ret, rid, rrev) ==
  [raised |-> FALSE, exc |-> NoExc, ret |-> ret, rid |-> rid, rrev |-> rrev,
   value |-> <<>>]
ReturnValue(ret, value) == [Return(ret, 0, 0) EXCEPT !.value = value]

\* The record of a finished call: x is the last exchange it made, out what
\* it came to.
Finished(call, x, out) ==
  [call EXCEPT !.net = x.fault, !.status = x.status, !.raised = out.raised,
               !.exc = out.exc, !.ret = out.ret, !.rid = out.rid, !.rrev = out.rrev,
               !.value = out.value, !.nreq = call.nreq + 1]

\* The record of a call that ended before it sent a request.
Unsent(call, out) ==
  [call EXCEPT !.raised = out.raised, !.exc = out.exc, !.ret = out.ret,
               !.rid = out.rid, !.rrev = out.rrev, !.value = out.value]

\* What the network does to one request: it fails in the transport, an
\* intermediary answers it with an error status, or the server handles it.
Nets ==
  {[fault |-> "none", status |-> 0]}
    \cup {[fault |-> "requests.ConnectionError", status |-> 0]}
    \cup {[fault |-> "none", status |-> 500]}

Exchange(n, s, handled) ==
  IF n.fault # "none" THEN [x |-> Failure(n.fault), srv |-> s]
  ELSE IF n.status # 0 THEN Answer(n.status, <<>>, s)
  ELSE handled

\* dict.update({'_id': id, '_rev': rev})
update_id_rev(d, id, rev) ==
  [k \in DOMAIN d \cup {"_id", "_rev"} |->
     IF k = "_id" THEN id ELSE IF k = "_rev" THEN rev ELSE d[k]]

\* d[key] = value
setitem(d, key, value) ==
  [k \in DOMAIN d \cup {key} |-> IF k = key THEN value ELSE d[k]]

\* d.get(key), with 0 for None
getitem(d, key) == IF key \in DOMAIN d THEN d[key] ELSE 0

Doc(type) == [k \in {"type"} |-> type]

\* The caller's two Server objects, the urls it may give them, and the
\* Session objects: one that the caller made itself and may hand to a
\* Server, and the one that each Server makes when it is given none.
ServerNames == {"a", "b"}
Urls == {"http://a/", "http://b/"}
DefaultUrl(s) == "http://" \o s \o "/"
OwnSession(s) == "Session of " \o s
CallerSession == "Session of the caller"
SessionNames == {CallerSession} \cup {OwnSession(s) : s \in ServerNames}

\* A version as the server reports it, character by character.
InitialVersion == <<"2", ".", "3", ".", "1">>
Versions ==
  {InitialVersion, <<"3", ".", "0", ".", "0">>,
   <<"3", ".", "0", ".", "0", "-", "r", "c">>}

\* A variant of Server__init__ that leaves the base_url of a session it is
\* given alone.
MutServer__init__(s, url, session, olds) ==
  LET x == IF session # "" THEN session ELSE OwnSession(s)
  IN [server |-> [_url |-> url, _session |-> x, _version_info |-> <<>>],
      sessions |-> IF session # "" THEN olds ELSE [olds EXCEPT ![x] = url]]

\* Server.__init__(url, session) for the object s ("" and <<>> for None):
\* the fields of the new object, and the Session objects afterwards.  The
\* session that is given gets url as its base_url; without one a new Session
\* with that base_url is made.
Server__init__(s, url, session, olds) ==
  LET x == IF session # "" THEN session ELSE OwnSession(s)
  IN [server |-> [_url |-> url, _session |-> x, _version_info |-> <<>>],
      sessions |-> [olds EXCEPT ![x] = url]]

\* Server(url) for each of the caller's Server objects, and Session() for
\* the caller's own session.
InitServers ==
  /\ servers = [s \in ServerNames |->
                  Server__init__(s, DefaultUrl(s), "", [x \in SessionNames |-> ""]).server]
  /\ sessions = [x \in SessionNames |->
                   IF x = CallerSession THEN ""
                   ELSE CHOOSE u \in Urls : \E s \in ServerNames :
                          x = OwnSession(s) /\ u = DefaultUrl(s)]
  /\ version = InitialVersion

\* The database can hold the document ids 1..ids; it may exist or not and
\* holds no document.  The caller holds two documents of equal content that
\* were never saved; whether the second one is a dict is left open.
InitWith(ids) ==
  /\ \E e \in BOOLEAN : srv = EmptyDb(e, 1..ids)
  /\ \E d \in BOOLEAN :
       obj = [o \in Objs |-> [isdict |-> (o = "o1" \/ d), items |-> Doc("A")]]
  /\ pc = NoPc
  /\ last = NoCall
  /\ gen = NoGen
  /\ InitServers

Init == InitWith(MaxDocIds) /\ obj["o2"].isdict

\* The caller takes what its last call returned or raised.
Return_ ==
  /\ pc.op = ""
  /\ last # NoCall
  /\ last' = NoCall
  /\ UNCHANGED <<srv, obj, pc, gen, more>>

(***************************************************************************)
(* Other clients of the same server.                                       *)
(***************************************************************************)

\* Another client writes a new revision of document id (or creates it).
OtherClientWrite(id) ==
  /\ srv.exists
  /\ srv' = Store(srv, id, TRUE)
  /\ Bounded(srv')
  /\ last' = IF pc.op = "" THEN NoCall ELSE last
  /\ UNCHANGED <<obj, pc, gen, more>>

\* Another client deletes the database.
OtherClientDeleteDb ==
  /\ srv.exists
  /\ srv' = EmptyDb(FALSE, Ids(srv))
  /\ last' = IF pc.op = "" THEN NoCall ELSE last
  /\ UNCHANGED <<obj, pc, gen, more>>

(***************************************************************************)
(* The two Session classes, used directly.                                 *)
(***************************************************************************)

Methods == {"HEAD", "GET", "PUT", "POST", "DELETE", "COPY"}
StatusCodes == 200..MaxStatus

Session_request(impl, x) ==
  IF impl = "client" THEN client_Session_request(x) ELSE session_Session_request(x)

\* session.request(method, url) on a session of either class; the exchange
\* ends in a transport fault or in a response with any status.
SessionRequest(impl, method, x) ==
  /\ Idle
  /\ LET r == Session_request(impl, x)
     IN last' = Finished([NoCall EXCEPT !.op = "Session.request", !.impl = impl,
                                        !.arg = method],
                         x, IF r.raised THEN Raise(r.exc) ELSE Return("Response", 0, 0))
  /\ UNCHANGED <<srv, obj, pc, gen, more>>

Verbs == {"head", "get", "put", "post", "delete"}

upper(verb) ==
  CASE verb = "head" -> "HEAD" [] verb = "get" -> "GET" [] verb = "put" -> "PUT"
    [] verb = "post" -> "POST" [] verb = "delete" -> "DELETE"

\* The arguments with which the verb helper of client.Session calls
\* self.request: the method, url=url, and the keyword arguments as given
\* ("" for one that is not given, or given as None).
client_Session_verb(verb, url, data, json, timeout) ==
  [method |-> upper(verb), url |-> <<url>>, data |-> data, json |-> json,
   timeout |-> timeout]

\* The same for session.Session, whose put passes no url (<<>>).
session_Session_verb(verb, url, data, json, timeout) ==
  [method |-> upper(verb), url |-> IF verb = "put" THEN <<>> ELSE <<url>>,
   data |-> data, json |-> json, timeout |-> timeout]

Session_verb(impl, verb, url, data, json, timeout) ==
  IF impl = "client" THEN client_Session_verb(verb, url, data, json, timeout)
  ELSE session_Session_verb(verb, url, data, json, timeout)

\* session.head(url, ...), .get, .put, .post or .delete on a session of
\* either class: request(method, url, ...) without its url argument is a
\* TypeError of the call; else the exchange ends in x.
SessionVerb(impl, verb, url, data, json, timeout, x) ==
  /\ Idle
  /\ LET args == Session_verb(impl, verb, url, data, json, timeout)
         r == Session_request(impl, x)
         call == [NoCall EXCEPT !.op = "Session.verb", !.impl = impl, !.arg = verb,
                                !.kwargs = [k \in {"url", "data", "json", "timeout"} |->
                                              CASE k = "url" -> url [] k = "data" -> data
                                                [] k = "json" -> json
                                                [] k = "timeout" -> timeout],
                                !.sent = args]
     IN last' = IF args.url = <<>>
                THEN Unsent(call, Raise(Builtin("TypeError",
                                                "request() missing argument: 'url'")))
                ELSE Finished(call, x,
                              IF r.raised THEN Raise(r.exc)
                              ELSE ReturnValue("Response", [status |-> x.status]))
  /\ UNCHANGED <<srv, obj, pc, gen, more>>

\* http_error_lookup(status_code, message), called directly.
HttpErrorLookup(status_code, message) ==
  /\ Idle
  /\ last' = [NoCall EXCEPT !.op = "http_error_lookup", !.status = status_code,
                            !.arg = message, !.raised = FALSE,
                            !.exc = http_error_lookup(status_code, message),
                            !.ret = "exception"]
  /\ UNCHANGED <<srv, obj, pc, gen, more>>

(***************************************************************************)
(* Requests.  A request is the method, the path below the server's url     *)
(* (the database, then the document id or 0, then a further segment such   *)
(* as _bulk_docs), the rev parameter (0: none; for COPY, the rev of the    *)
(* Destination header), the batch=ok parameter, the Destination header     *)
(* (0: none) and the JSON body.  Where the text of the request matters,    *)
(* path holds the segments of its path, params its query parameters as     *)
(* they are sent, headers its headers and data its body.                   *)
(***************************************************************************)

Request(method, id, sub, rev, batch, dest, json) ==
  [method |-> method, id |-> id, sub |-> sub, rev |-> rev, batch |-> batch,
   dest |-> dest, json |-> json, path |-> <<>>, params |-> <<>>, headers |-> <<>>,
   data |-> ""]

\* The server's handler for request q.
Serve(s, q) ==
  CASE q.method = "HEAD" /\ q.id = 0 -> srv_head_db(s)
    [] q.method = "HEAD" /\ q.id # 0 -> srv_get_doc(s, q.id)
    [] q.method = "GET" /\ q.sub # <<>> /\ q.sub[1] = "view" -> srv_get_view(s, q)
    [] q.method = "GET" /\ q.sub # <<>> /\ q.sub[1] = "att" -> srv_get_att(s, q)
    [] q.method = "PUT" /\ q.sub # <<>> -> srv_put_att(s, q)
    [] q.method = "GET" /\ q.sub = <<>> /\ q.id = 0 -> srv_get_db(s)
    [] q.method = "GET" /\ q.sub = <<>> /\ q.id # 0 ->
         srv_get_doc_params(s, q.id, q.params)
    [] q.method = "PUT" /\ q.sub = <<>> /\ q.id = 0 -> srv_put_db(s)
    [] q.method = "PUT" /\ q.sub = <<>> /\ q.id # 0 ->
         srv_put_doc(s, q.id, getitem(q.json, "_rev"))
    [] q.method = "POST" /\ q.sub = <<>> -> srv_post_doc(s, q.json, q.batch)
    [] q.method = "DELETE" /\ q.id = 0 -> srv_delete_db(s)
    [] q.method = "DELETE" /\ q.id # 0 /\ q.sub = <<>> ->
         srv_delete_doc(s, q.id, q.rev)
    [] q.method = "DELETE" /\ q.id # 0 /\ q.sub # <<>> -> srv_delete_att(s, q)
    [] q.method = "COPY" -> srv_copy_doc(s, q.id, q.dest, q.rev)

\* One request of a call of Server or Database, through the Server's own
\* session (a client.Session): what the network and the server make of it.
Send(n, q) ==
  LET h == Exchange(n, srv, Serve(srv, q))
  IN [x |-> h.x, srv |-> h.srv, r |-> client_Session_request(h.x)]

\* The record of a call while it runs: its name, its arguments and the
\* request it sends now.
Call(op, o, id, arg, batch, q) ==
  [NoCall EXCEPT !.op = op, !.o = o, !.id = id, !.arg = arg, !.batch = batch,
                 !.sent = q]

MissingDatabase == CouchDBException("MissingDatabase", "Database does not exist")
MissingDocument == CouchDBException("MissingDocument", "Document does not exist")

(***************************************************************************)
(* Python values, as far as the query parameters need them: None, a str,   *)
(* a bool, an int, or the list [s] of one str.                             *)
(***************************************************************************)

None == [t |-> "None", s |-> "", b |-> FALSE, i |-> 0]
Str(s) == [t |-> "str", s |-> s, b |-> FALSE, i |-> 0]
Bool(b) == [t |-> "bool", s |-> "", b |-> b, i |-> 0]
int(i) == [t |-> "int", s |-> "", b |-> FALSE, i |-> i]
List(s) == [t |-> "list", s |-> s, b |-> FALSE, i |-> 0]
True == Bool(TRUE)
False == Bool(FALSE)

\* The truth value of v, as "if v", "not v" and bool(v) take it.
truth(v) ==
  CASE v.t = "None" -> FALSE
    [] v.t = "str" -> v.s # ""
    [] v.t = "bool" -> v.b
    [] v.t = "int" -> v.i # 0
    [] v.t = "list" -> TRUE

bool(v) == Bool(truth(v))

\* A variant of _jsons that sends a str as its raw text.
Mut_jsons(data) ==
  CASE data.t = "None" -> "null"
    [] data.t = "str" -> data.s
    [] data.t = "bool" -> IF data.b THEN "true" ELSE "false"
    [] data.t = "int" -> ToString(data.i)
    [] data.t = "list" -> "[" \o data.s \o "]"

\* _jsons(data): json.dumps(data), the JSON text of data.
_jsons(data) ==
  CASE data.t = "None" -> "null"
    [] data.t = "str" -> "\"" \o data.s \o "\""
    [] data.t = "bool" -> IF data.b THEN "true" ELSE "false"
    [] data.t = "int" -> ToString(data.i)
    [] data.t = "list" -> "[\"" \o data.s \o "\"]"

\* The keyword arguments of a call: a function from the names the caller
\* gave to their values.  arg is the value the callee sees.
arg(kwargs, defaults, name) ==
  IF name \in DOMAIN kwargs THEN kwargs[name] ELSE defaults[name]

\* Every way to give some of the names a value of vals.
Kwargs(names, vals) == UNION {[D -> vals] : D \in SUBSET names}

(***************************************************************************)
(* Strings that the code takes apart are sequences of characters.          *)
(***************************************************************************)

RECURSIVE text(_)
text(cs) == IF cs = <<>> THEN "" ELSE Head(cs) \o text(Tail(cs))

\* name.startswith(c)
startswith(cs, c) == Len(cs) > 0 /\ cs[1] = c

\* name.split('/', 1): the parts before and after the first '/', or the
\* name alone when it has none.
split1(cs) ==
  IF \E i \in 1..Len(cs) : cs[i] = "/"
  THEN LET i == CHOOSE i \in 1..Len(cs) : cs[i] = "/" /\ \A j \in 1..(i - 1) : cs[j] # "/"
       IN <<SubSeq(cs, 1, i - 1), SubSeq(cs, i + 1, Len(cs))>>
  ELSE <<cs>>

\* furl.Path.add(str): the segments of a path given as one string.
RECURSIVE segments(_)
segments(cs) ==
  LET parts == split1(cs)
  IN IF Len(parts) = 1 THEN <<text(cs)>>
     ELSE <<text(parts[1])>> \o segments(parts[2])

(***************************************************************************)
(* Database.get: the query parameters.                                     *)
(***************************************************************************)

get_defaults ==
  [n \in {"att_encoding_info", "atts_since", "conflicts", "deleted_conflicts",
          "latest", "local_seq", "meta", "open_revs", "rev", "revs", "revs_info"} |->
     None]

\* The parameters of Database.get that are sent as bool(value).
get_flags ==
  {"atts_since", "conflicts", "deleted_conflicts", "latest", "local_seq", "meta",
   "revs", "revs_info"}

\* A variant of Database_get_params that sends a flag only when it is true.
MutDatabase_get_params(kwargs) ==
  LET a(n) == arg(kwargs, get_defaults, n)
  IN [n \in {m \in DOMAIN get_defaults :
               IF m \in get_flags THEN truth(a(m)) ELSE a(m) # None} |->
        IF n \in get_flags THEN _jsons(bool(a(n)))
        ELSE IF n = "rev" THEN a(n).s
        ELSE _jsons(a(n))]

\* Database.get: params, as the if statements fill it.
Database_get_params(kwargs) ==
  LET a(n) == arg(kwargs, get_defaults, n)
  IN [n \in {m \in DOMAIN get_defaults : a(m) # None} |->
        IF n \in get_flags THEN _jsons(bool(a(n)))
        ELSE IF n = "rev" THEN a(n).s
        ELSE _jsons(a(n))]

(***************************************************************************)
(* Database: reading.                                                      *)
(***************************************************************************)

MutDatabase__getitem__(r) ==
  IF r.raised THEN Raise(r.exc)
  ELSE Return("Document", r.body["_id"], r.body["_rev"])

\* Database.__getitem__: what db[id] comes to, given the session's result r.
Database__getitem__(r) ==
  IF r.raised
  THEN IF isinstance(r.exc, "HTTPNotFound") THEN Raise(MissingDocument)
       ELSE Raise(r.exc)
  ELSE Return("Document", r.body["_id"], r.body["_rev"])

DbGetItem(id, n) ==
  /\ Idle
  /\ LET q == Request("GET", id, <<>>, 0, FALSE, 0, <<>>)
         e == Send(n, q)
     IN /\ srv' = e.srv
        /\ last' = Finished(Call("Database.__getitem__", "", id, "", FALSE, q), e.x,
                            Database__getitem__(e.r))
  /\ UNCHANGED <<obj, pc, gen, more>>

\* Database.get: default names the value the caller supplies ("None" when
\* the caller supplies none).
Database_get(r, default) ==
  IF r.raised
  THEN IF isinstance(r.exc, "HTTPNotFound") THEN Return(default, 0, 0)
       ELSE Raise(r.exc)
  ELSE Return("dict", r.body["_id"], r.body["_rev"])

\* db.get(id, default, **kwargs)
DbGet(id, default, kwargs, n) ==
  /\ Idle
  /\ LET q == [Request("GET", id, <<>>, 0, FALSE, 0, <<>>)
                EXCEPT !.path = <<DbName, ToString(id)>>,
                       !.params = Database_get_params(kwargs)]
         e == Send(n, q)
     IN /\ srv' = e.srv
        /\ last' = Finished([Call("Database.get", "", id, default, FALSE, q)
                               EXCEPT !.kwargs = kwargs],
                            e.x, Database_get(e.r, default))
  /\ UNCHANGED <<obj, pc, gen, more>>

\* Database.__contains__
Database__contains__(r) ==
  IF r.raised
  THEN IF isinstance(r.exc, "HTTPNotFound") THEN Return("False", 0, 0)
       ELSE Raise(r.exc)
  ELSE Return("True", 0, 0)

DbContains(id, n) ==
  /\ Idle
  /\ LET q == Request("HEAD", id, <<>>, 0, FALSE, 0, <<>>)
         e == Send(n, q)
     IN /\ srv' = e.srv
        /\ last' = Finished(Call("Database.__contains__", "", id, "", FALSE, q), e.x,
                            Database__contains__(e.r))
  /\ UNCHANGED <<obj, pc, gen, more>>

\* Database.__len__
Database__len__(r) ==
  IF r.raised
  THEN IF isinstance(r.exc, "HTTPNotFound") THEN Raise(MissingDatabase)
       ELSE Raise(r.exc)
  ELSE Return("int", r.body["doc_count"], 0)

DbLen(n) ==
  /\ Idle
  /\ LET q == Request("GET", 0, <<>>, 0, FALSE, 0, <<>>)
         e == Send(n, q)
     IN /\ srv' = e.srv
        /\ last' = Finished(Call("Database.__len__", "", 0, "", FALSE, q), e.x,
                            Database__len__(e.r))
  /\ UNCHANGED <<obj, pc, gen, more>>

(***************************************************************************)
(* Database.view and Database.query_view.                                  *)
(***************************************************************************)

query_view_defaults ==
  [n \in {"key", "keys", "startkey", "endkey", "skip", "limit", "sorted",
          "descending", "group", "group_level", "reduce", "include_docs", "update"} |->
     CASE n = "sorted" -> True
       [] n \in {"descending", "group", "include_docs"} -> False
       [] OTHER -> None]

\* The parameters of query_view that are sent as _jsons(value) when the
\* value is not None.
query_view_plain == {"startkey", "key", "keys", "endkey", "skip", "limit", "group_level"}

MutDatabase_query_view_assert(update) == TRUE

\* assert update in ["true", "false", "lazy"]
Database_query_view_assert(update) ==
  update.t = "str" /\ update.s \in {"true", "false", "lazy"}

\* A variant of Database_query_view_params that leaves the caller's
\* reduce alone when include_docs is true.
MutDatabase_query_view_params(kwargs) ==
  LET a(n) == arg(kwargs, query_view_defaults, n)
      present ==
        {n \in query_view_plain \cup {"reduce", "update"} : a(n) # None}
          \cup (IF ~truth(a("sorted")) THEN {"sorted"} ELSE {})
          \cup {n \in {"descending", "group", "include_docs"} : truth(a(n))}
  IN [n \in present |->
        CASE n \in query_view_plain -> _jsons(a(n))
          [] n = "sorted" -> _jsons(False)
          [] n \in {"descending", "group", "include_docs"} -> _jsons(True)
          [] n = "reduce" -> _jsons(bool(a("reduce")))
          [] n = "update" -> a("update").s]

\* Database.query_view: params, as the if statements fill it, in their
\* order: include_docs writes reduce after reduce itself has.
Database_query_view_params(kwargs) ==
  LET a(n) == arg(kwargs, query_view_defaults, n)
      present ==
        {n \in query_view_plain \cup {"reduce", "update"} : a(n) # None}
          \cup (IF ~truth(a("sorted")) THEN {"sorted"} ELSE {})
          \cup {n \in {"descending", "group", "include_docs"} : truth(a(n))}
          \cup (IF truth(a("include_docs")) THEN {"reduce"} ELSE {})
  IN [n \in present |->
        CASE n \in query_view_plain -> _jsons(a(n))
          [] n = "sorted" -> _jsons(False)
          [] n \in {"descending", "group", "include_docs"} -> _jsons(True)
          [] n = "reduce" -> IF truth(a("include_docs")) THEN _jsons(False)
                             ELSE _jsons(bool(a("reduce")))
          [] n = "update" -> a("update").s]

\* Database.query_view up to its request: the two asserts, then the GET.
\* design_doc is None or a str, view_name a sequence of characters.
Database_query_view_request(design_doc, view_name, kwargs) ==
  LET update == arg(kwargs, query_view_defaults, "update")
      path == IF design_doc = None THEN <<DbName>> \o segments(view_name)
              ELSE <<DbName, "_design", design_doc.s, "_view", text(view_name)>>
  IN IF update # None /\ ~Database_query_view_assert(update)
     THEN [raised |-> TRUE, exc |-> Builtin("AssertionError", ""), q |-> <<>>]
     ELSE IF design_doc = None /\ ~startswith(view_name, "_")
     THEN [raised |-> TRUE, exc |-> Builtin("AssertionError", ""), q |-> <<>>]
     ELSE [raised |-> FALSE, exc |-> NoExc,
           q |-> [Request("GET", 0, <<"view">>, 0, FALSE, 0, <<>>)
                    EXCEPT !.path = path, !.params = Database_query_view_params(kwargs)]]

\* views.Row: the namedtuple of four fields, called with args.
RowFields == <<"id", "key", "value", "doc">>

Row(args) ==
  IF Len(args) # Len(RowFields)
  THEN [raised |-> TRUE,
        exc |-> Builtin("TypeError", "__new__() takes 5 positional arguments but "
                                       \o ToString(Len(args) + 1) \o " were given"),
        row |-> <<>>]
  ELSE [raised |-> FALSE, exc |-> NoExc,
        row |-> [i \in 1..Len(RowFields) |-> args[i]]]

\* Database.query_view after its request: no except clause; one Row is
\* made of each entry of rows, from its id, key, value, error and doc (0
\* stands for the None that r.get gives for a missing one).
Database_query_view(r) ==
  IF r.raised THEN Raise(r.exc)
  ELSE LET rows == IF "rows" \in DOMAIN r.body THEN r.body["rows"] ELSE <<>>
           made == [i \in 1..Len(rows) |->
                      Row(<<getitem(rows[i], "id"), getitem(rows[i], "key"),
                            getitem(rows[i], "value"), getitem(rows[i], "error"),
                            getitem(rows[i], "doc")>>)]
       IN IF \E i \in 1..Len(rows) : made[i].raised
          THEN Raise(made[CHOOSE i \in 1..Len(rows) :
                            made[i].raised /\ \A j \in 1..(i - 1) : ~made[j].raised].exc)
          ELSE ReturnValue("ViewResult",
                           [rows |-> [i \in 1..Len(rows) |-> made[i].row],
                            offset |-> getitem(r.body, "offset"),
                            total_rows |-> getitem(r.body, "total_rows")])

\* The views that query_view is called for directly: the built-in
\* _all_docs and the view v of the design document dd.
ViewNames ==
  {<<None, <<"_", "a", "l", "l", "_", "d", "o", "c", "s">>>>, <<Str("dd"), <<"v">>>>}

\* db.query_view(design_doc, view_name, **kwargs)
DbQueryView(design_doc, view_name, kwargs, n) ==
  /\ Idle
  /\ LET req == Database_query_view_request(design_doc, view_name, kwargs)
         call == [Call("Database.query_view", "", 0, "", FALSE, req.q)
                    EXCEPT !.kwargs = kwargs, !.name = view_name]
     IN IF req.raised
        THEN /\ last' = Unsent(call, Raise(req.exc))
             /\ srv' = srv
        ELSE LET e == Send(n, req.q)
             IN /\ srv' = e.srv
                /\ last' = Finished(call, e.x, Database_query_view(e.r))
  /\ UNCHANGED <<obj, pc, gen, more>>

\* A variant of Database_view that splits every name, a name with a
\* leading underscore too.
MutDatabase_view(name) ==
  LET parts == split1(name)
  IN IF Len(parts) # 2
     THEN [raised |-> TRUE,
           exc |-> Builtin("ValueError", "not enough values to unpack"),
           design_doc |-> None, view_name |-> <<>>]
     ELSE [raised |-> FALSE, exc |-> NoExc, design_doc |-> Str(text(parts[1])),
           view_name |-> parts[2]]

\* Database.view up to its call of query_view: the design document and the
\* view that name stands for.
Database_view(name) ==
  IF startswith(name, "_")
  THEN [raised |-> FALSE, exc |-> NoExc, design_doc |-> None, view_name |-> name]
  ELSE LET parts == split1(name)
       IN IF Len(parts) # 2
          THEN [raised |-> TRUE,
                exc |-> Builtin("ValueError", "not enough values to unpack"),
                design_doc |-> None, view_name |-> <<>>]
          ELSE [raised |-> FALSE, exc |-> NoExc, design_doc |-> Str(text(parts[1])),
                view_name |-> parts[2]]

\* db.view(name, **options)
DbView(name, options, n) ==
  /\ Idle
  /\ LET v == Database_view(name)
         req == Database_query_view_request(v.design_doc, v.view_name, options)
         call == [Call("Database.view", "", 0, "", FALSE,
                       IF v.raised THEN <<>> ELSE req.q)
                    EXCEPT !.kwargs = options, !.name = name]
     IN IF v.raised \/ req.raised
        THEN /\ last' = Unsent(call, Raise(IF v.raised THEN v.exc ELSE req.exc))
             /\ srv' = srv
        ELSE LET e == Send(n, req.q)
             IN /\ srv' = e.srv
                /\ last' = Finished(call, e.x, Database_query_view(e.r))
  /\ UNCHANGED <<obj, pc, gen, more>>

(***************************************************************************)
(* Database: writing one document.                                         *)
(***************************************************************************)

UpdateConflict == CouchDBException("UpdateConflict", "")

MutDatabase_save(doc, r) ==
  IF r.raised
  THEN [out |-> IF isinstance(r.exc, "HTTPConflict") THEN Raise(UpdateConflict)
                ELSE Raise(r.exc),
        doc |-> doc]
  ELSE LET d2 == update_id_rev(doc, r.body["id"], getitem(r.body, "rev"))
       IN [out |-> Return("tuple", d2["_id"], d2["_rev"]), doc |-> d2]

\* Database.save, after the POST: what the call comes to and what the
\* caller's document holds afterwards.
Database_save(doc, r) ==
  IF r.raised
  THEN [out |-> IF isinstance(r.exc, "HTTPConflict") THEN Raise(UpdateConflict)
                ELSE Raise(r.exc),
        doc |-> doc]
  ELSE LET d1 == setitem(doc, "_id", r.body["id"])
           rev == getitem(r.body, "rev")
           d2 == IF rev # 0 THEN setitem(d1, "_rev", r.body["rev"]) ELSE d1
       IN [out |-> Return("tuple", d2["_id"], rev), doc |-> d2]

MutDatabase_save_request(doc, batch) ==
  Request("POST", 0, <<>>, 0, batch, 0,
          [k \in DOMAIN doc \ {"_id", "_rev"} |-> doc[k]])

\* Database.save, the request: POST /{db} with the document as JSON and
\* batch=ok when batch is true.
Database_save_request(doc, batch) ==
  Request("POST", 0, <<>>, 0, batch, 0, doc)

\* db.save(doc, batch) for a dict.
DbSave(o, batch, n) ==
  /\ Idle
  /\ obj[o].isdict
  /\ "_id" \in DOMAIN obj[o].items \/ FreshIds(srv) # {}
  /\ LET q == Database_save_request(obj[o].items, batch)
         e == Send(n, q)
         res == Database_save(obj[o].items, e.r)
     IN /\ srv' = e.srv
        /\ obj' = [obj EXCEPT ![o].items = res.doc]
        /\ last' = Finished(Call("Database.save", o, 0, "", batch, q), e.x, res.out)
  /\ Bounded(srv')
  /\ UNCHANGED <<pc, gen, more>>

\* Database.__setitem__, after the PUT.
Database__setitem__(content, r) ==
  IF r.raised THEN [out |-> Raise(r.exc), doc |-> content]
  ELSE [out |-> Return("None", 0, 0),
        doc |-> update_id_rev(content, r.body["id"], r.body["rev"])]

DbSetItem(id, o, n) ==
  /\ Idle
  /\ obj[o].isdict
  /\ LET q == Request("PUT", id, <<>>, 0, FALSE, 0, obj[o].items)
         e == Send(n, q)
         res == Database__setitem__(obj[o].items, e.r)
     IN /\ srv' = e.srv
        /\ obj' = [obj EXCEPT ![o].items = res.doc]
        /\ last' = Finished(Call("Database.__setitem__", o, id, "", FALSE, q), e.x, res.out)
  /\ Bounded(srv')
  /\ UNCHANGED <<pc, gen, more>>

\* A variant of Database_delete that takes a conflict for done.
MutDatabase_delete(r) ==
  IF r.raised /\ ~isinstance(r.exc, "HTTPConflict") THEN Raise(r.exc)
  ELSE Return("None", 0, 0)

\* Database.delete, after the DELETE: no except clause, nothing returned.
Database_delete(r) ==
  IF r.raised THEN Raise(r.exc) ELSE Return("None", 0, 0)

\* db.delete(doc) for a document that holds _id and _rev.
DbDelete(o, n) ==
  /\ Idle
  /\ obj[o].isdict
  /\ {"_id", "_rev"} \subseteq DOMAIN obj[o].items
  /\ LET q == Request("DELETE", obj[o].items["_id"], <<>>, obj[o].items["_rev"],
                      FALSE, 0, <<>>)
         e == Send(n, q)
     IN /\ srv' = e.srv
        /\ last' = Finished(Call("Database.delete", o, q.id, "", FALSE, q), e.x,
                            Database_delete(e.r))
  /\ Bounded(srv')
  /\ UNCHANGED <<obj, pc, gen, more>>

\* Database.delete up to its request: doc['_id'] is looked up and compared
\* with None (0), then doc['_rev'] is looked up.
Database_delete_request(doc) ==
  LET failed(exc) == [raised |-> TRUE, exc |-> exc, q |-> <<>>]
  IN IF "_id" \notin DOMAIN doc THEN failed(Builtin("KeyError", "_id"))
     ELSE IF doc["_id"] = 0
     THEN failed(Builtin("ValueError", "document ID cannot be None"))
     ELSE IF "_rev" \notin DOMAIN doc THEN failed(Builtin("KeyError", "_rev"))
     ELSE [raised |-> FALSE, exc |-> NoExc,
           q |-> Request("DELETE", doc["_id"], <<>>, doc["_rev"], FALSE, 0, <<>>)]

\* db.delete(doc) for a dict that the caller makes for the call.
DbDeleteDict(doc, n) ==
  /\ Idle
  /\ LET req == Database_delete_request(doc)
         call == [Call("Database.delete", "", getitem(doc, "_id"), "", FALSE, req.q)
                    EXCEPT !.kwargs = [k \in {"doc"} |-> doc]]
     IN IF req.raised
        THEN /\ srv' = srv
             /\ last' = Unsent(call, Raise(req.exc))
        ELSE LET e == Send(n, req.q)
             IN /\ srv' = e.srv
                /\ last' = Finished(call, e.x, Database_delete(e.r))
  /\ Bounded(srv')
  /\ UNCHANGED <<obj, pc, gen, more>>

\* A variant of Database__delitem__ that ends the call after the HEAD.
MutDatabase__delitem__(r) ==
  IF r.raised THEN Raise(r.exc) ELSE Return("None", 0, 0)

\* Database.__delitem__, after its HEAD: the call goes on with the revision
\* of the ETag header, unless the HEAD raised.
Database__delitem__(r) ==
  IF r.raised THEN Raise(r.exc) ELSE Return("continue", 0, r.body["ETag"])

\* del db[id], first request.
DbDelItem(id, n) ==
  /\ Idle
  /\ LET q == Request("HEAD", id, <<>>, 0, FALSE, 0, <<>>)
         e == Send(n, q)
         out == Database__delitem__(e.r)
         done == Finished(Call("Database.__delitem__", "", id, "", FALSE, q), e.x, out)
     IN /\ srv' = e.srv
        /\ last' = done
        /\ pc' = IF out.ret = "continue"
                 THEN [op |-> "Database.__delitem__", id |-> id, rev |-> out.rrev]
                 ELSE NoPc
  /\ UNCHANGED <<obj, gen, more>>

\* del db[id], second request: self.delete({'_id': id, '_rev': rev}).
DbDelItemDelete(n) ==
  /\ pc.op = "Database.__delitem__"
  /\ LET q == Request("DELETE", pc.id, <<>>, pc.rev, FALSE, 0, <<>>)
         e == Send(n, q)
     IN /\ srv' = e.srv
        /\ last' = Finished([last EXCEPT !.sent = q], e.x, Database_delete(e.r))
  /\ Bounded(srv')
  /\ pc' = NoPc
  /\ UNCHANGED <<obj, gen, more>>

\* Database.copy, after the COPY.
Database_copy(r) ==
  IF r.raised
  THEN IF isinstance(r.exc, "HTTPConflict") THEN Raise(UpdateConflict)
       ELSE Raise(r.exc)
  ELSE Return("rev", 0, r.body["rev"])

\* What an argument is: a str, a dict, another object that offers items(),
\* or an object that is none of these (an int, say).
Kinds == {"str", "dict", "items", "other"}

TypeError(message) == Builtin("TypeError", message)

\* A variant of Database_copy_args that does not look at dest.
MutDatabase_copy_args(src_kind, dest_kind) ==
  IF src_kind = "other" THEN Raise(TypeError("expected dict or string"))
  ELSE Return("continue", 0, 0)

\* Database.copy, the checks of its arguments before the request.
Database_copy_args(src_kind, dest_kind) ==
  IF src_kind = "other" THEN Raise(TypeError("expected dict or string"))
  ELSE IF dest_kind = "other" THEN Raise(TypeError("expected dict or string"))
  ELSE Return("continue", 0, 0)

\* db.copy(src, dest): src is an id or a mapping with that _id; dest is an
\* id (dest_rev 0) or a mapping with that _id and, when dest_rev is not 0,
\* that _rev; or either is an object of another kind.
DbCopy(src_kind, dest_kind, src, dest_id, dest_rev, n) ==
  /\ Idle
  /\ dest_kind = "str" => dest_rev = 0
  /\ LET q == Request("COPY", src, <<>>, dest_rev, FALSE, dest_id, <<>>)
         e == Send(n, q)
         args == Database_copy_args(src_kind, dest_kind)
         call == [Call("Database.copy", "", src, "", FALSE, q)
                    EXCEPT !.kwargs = [k \in {"src", "dest"} |->
                                         IF k = "src" THEN src_kind ELSE dest_kind]]
     IN IF args.raised
        THEN /\ srv' = srv
             /\ last' = Unsent([call EXCEPT !.sent = <<>>], args)
        ELSE /\ srv' = e.srv
             /\ last' = Finished(call, e.x, Database_copy(e.r))
  /\ Bounded(srv')
  /\ UNCHANGED <<obj, pc, gen, more>>

(***************************************************************************)
(* Database.revisions: a generator.  Calling it runs none of its code;     *)
(* each next() runs it up to the next yield, the return or an exception.   *)
(***************************************************************************)

StopIteration == Builtin("StopIteration", "")

\* db.revisions(id): the generator is made and nothing else happens.
DbRevisions(id) ==
  /\ Idle
  /\ gen' = [NoGen EXCEPT !.at = "created", !.id = id]
  /\ last' = Unsent(Call("Database.revisions", "", id, "", FALSE, <<>>),
                    Return("generator", 0, 0))
  /\ UNCHANGED <<srv, obj, pc, more>>

\* The request of self.get(id, **kwargs), as the generator makes it.
revisions_get(id, kwargs) ==
  [Request("GET", id, <<>>, 0, FALSE, 0, <<>>)
     EXCEPT !.path = <<DbName, ToString(id)>>, !.params = Database_get_params(kwargs)]

\* The generator from its start to the for loop: data = self.get(id,
\* revs=True), given as what that call came to; "if data is None: return".
Database_revisions_start(g, data, body) ==
  IF data.raised THEN [gen |-> [g EXCEPT !.at = "finished"], out |-> Raise(data.exc)]
  ELSE IF data.ret = "None"
  THEN [gen |-> [g EXCEPT !.at = "finished"], out |-> Raise(StopIteration)]
  ELSE [gen |-> [g EXCEPT !.at = "loop", !.startrev = body["_revisions"]["start"],
                          !.ids = Len(body["_revisions"]["ids"])],
        out |-> Return("continue", 0, 0)]

\* A variant of Database_revisions_loop that takes a missing revision for
\* an error.
MutDatabase_revisions_loop(g, doc) ==
  IF doc.raised THEN [gen |-> [g EXCEPT !.at = "finished"], out |-> Raise(doc.exc)]
  ELSE IF doc.ret = "None"
  THEN [gen |-> [g EXCEPT !.at = "finished"], out |-> Raise(MissingDocument)]
  ELSE [gen |-> [g EXCEPT !.index = g.index + 1],
        out |-> Return("Document", doc.rid, doc.rrev)]

\* One turn of the for loop after doc = self.get(id, rev=target_rev), given
\* as what that call came to: "if doc is None: return", else the yield.
Database_revisions_loop(g, doc) ==
  IF doc.raised THEN [gen |-> [g EXCEPT !.at = "finished"], out |-> Raise(doc.exc)]
  ELSE IF doc.ret = "None"
  THEN [gen |-> [g EXCEPT !.at = "finished"], out |-> Raise(StopIteration)]
  ELSE [gen |-> [g EXCEPT !.index = g.index + 1],
        out |-> Return("Document", doc.rid, doc.rrev)]

\* next(g) on a generator that has not run: the first request.
GenNext(n) ==
  /\ Idle
  /\ gen.at = "created"
  /\ LET q == revisions_get(gen.id, [k \in {"revs"} |-> True])
         e == Send(n, q)
         step == Database_revisions_start(gen, Database_get(e.r, "None"), e.r.body)
     IN /\ srv' = e.srv
        /\ gen' = step.gen
        /\ last' = Finished(Call("next", "", gen.id, "", FALSE, q), e.x, step.out)
        /\ pc' = IF step.out.ret = "continue" /\ step.gen.ids > 0
                 THEN [NoPc EXCEPT !.op = "next"]
                 ELSE NoPc
  /\ UNCHANGED <<obj, more>>

\* The request of one turn of the loop: in the next(g) that began with
\* GenNext, or in a later next(g), which resumes after the yield.
GenNextGet(n) ==
  /\ pc.op = "next" \/ (Idle /\ gen.at = "loop")
  /\ gen.index < gen.ids
  /\ LET target_rev == gen.startrev - gen.index
         q == revisions_get(gen.id, [k \in {"rev"} |-> Str(ToString(target_rev))])
         e == Send(n, q)
         step == Database_revisions_loop(gen, Database_get(e.r, "None"))
         call == IF pc.op = "next" THEN [last EXCEPT !.sent = q]
                 ELSE Call("next", "", gen.id, "", FALSE, q)
     IN /\ srv' = e.srv
        /\ gen' = step.gen
        /\ last' = Finished(call, e.x, step.out)
  /\ pc' = NoPc
  /\ UNCHANGED <<obj, more>>

\* next(g) when the loop has taken every entry, or on a generator that has
\* returned or raised: StopIteration, and no request.
GenNextStop ==
  /\ Idle
  /\ gen.at = "finished" \/ (gen.at = "loop" /\ gen.index = gen.ids)
  /\ gen' = [gen EXCEPT !.at = "finished"]
  /\ last' = Unsent(Call("next", "", gen.id, "", FALSE, <<>>), Raise(StopIteration))
  /\ UNCHANGED <<srv, obj, pc, more>>

(***************************************************************************)
(* Database: the operations that are not implemented.  Each begins with    *)
(* "raise NotImplementedError"; the statements after it never run, but a   *)
(* yield among them makes the function a generator function.               *)
(***************************************************************************)

NotImplementedError == Builtin("NotImplementedError", "")

Stubs == {"changes", "show", "list", "update_doc", "index", "iterview"}

\* A variant of has_yield for an iterview without the loop that yields.
Muthas_yield(name) == FALSE

\* The body of the function holds a yield statement.
has_yield(name) == name = "iterview"

\* Calling the function: a generator function returns a generator and
\* runs nothing of its body; any other runs its first statement, the raise.
Database_stub(name) ==
  IF has_yield(name) THEN Return("generator", 0, 0) ELSE Raise(NotImplementedError)

\* db.changes(...), db.show(...), db.list(...), db.update_doc(...),
\* db.index() or db.iterview(...), with any arguments.
DbStub(name, args) ==
  /\ Idle
  /\ LET out == Database_stub(name)
     IN /\ last' = Unsent(Call("Database." \o name, "", 0, args, FALSE, <<>>), out)
        /\ gen' = IF out.ret = "generator"
                  THEN [NoGen EXCEPT !.at = "iterview: created"]
                  ELSE gen
  /\ UNCHANGED <<srv, obj, pc, more>>

\* next(g) on the generator of iterview: its first statement raises; after
\* that the generator is finished.
IterviewNext ==
  /\ Idle
  /\ gen.at \in {"iterview: created", "iterview: finished"}
  /\ gen' = [gen EXCEPT !.at = "iterview: finished"]
  /\ last' = Unsent(Call("next of iterview", "", 0, "", FALSE, <<>>),
                    IF gen.at = "iterview: created" THEN Raise(NotImplementedError)
                    ELSE Raise(StopIteration))
  /\ UNCHANGED <<srv, obj, pc, more>>

(***************************************************************************)
(* Database: attachments.                                                  *)
(***************************************************************************)

\* mimetypes.guess_type(filename, strict=False)[0], "" for None.
guess_type(filename) == IF filename = "a.txt" THEN "text/plain" ELSE ""

BIN_MIME == "application/octet-stream"

\* Database.put_attachment up to its request.  filename is "" for None;
\* content.name is the name attribute of the content ("" when it has none,
\* as a str or bytes has none).
Database_put_attachment_request(doc, content, filename, content_type) ==
  LET name == IF filename = "" THEN content.name ELSE filename
      ctype == IF content_type # "" THEN content_type
               ELSE IF guess_type(name) # "" THEN guess_type(name)
               ELSE BIN_MIME
      failed(exc) == [raised |-> TRUE, exc |-> exc, q |-> <<>>]
  IN IF name = ""
     THEN failed(Builtin("ValueError", "Could not determine filename from file object"))
     ELSE IF "_rev" \notin DOMAIN doc THEN failed(Builtin("KeyError", "_rev"))
     ELSE IF "_id" \notin DOMAIN doc THEN failed(Builtin("KeyError", "_id"))
     ELSE [raised |-> FALSE, exc |-> NoExc,
           q |-> [Request("PUT", doc["_id"], <<"att", name>>, 0, FALSE, 0, <<>>)
                    EXCEPT !.path = <<DbName, ToString(doc["_id"]), name>>,
                           !.headers = [h \in {"Content-Type", "If-Match"} |->
                                          IF h = "If-Match" THEN ToString(doc["_rev"])
                                          ELSE ctype],
                           !.data = content.bytes]]

\* Database.put_attachment after its request: no except clause.
Database_put_attachment(doc, r) ==
  IF r.raised THEN [out |-> Raise(r.exc), doc |-> doc]
  ELSE [out |-> Return("rev", doc["_id"], r.body["rev"]),
        doc |-> setitem(doc, "_rev", r.body["rev"])]

\* db.put_attachment(doc, content, filename)
DbPutAttachment(o, content, filename, n) ==
  /\ Idle
  /\ obj[o].isdict
  /\ LET req == Database_put_attachment_request(obj[o].items, content, filename, "")
         call == [Call("Database.put_attachment", o, getitem(obj[o].items, "_id"),
                       filename, FALSE, req.q)
                    EXCEPT !.kwargs = [k \in {"content.name"} |-> content.name]]
     IN IF req.raised
        THEN /\ last' = Unsent(call, Raise(req.exc))
             /\ UNCHANGED <<srv, obj, more>>
        ELSE LET e == Send(n, req.q)
                 res == Database_put_attachment(obj[o].items, e.r)
             IN /\ srv' = e.srv
                /\ Bounded(srv')
                /\ last' = Finished(call, e.x, res.out)
                /\ obj' = [obj EXCEPT ![o].items = res.doc]
  /\ UNCHANGED <<pc, gen, more>>

\* A variant of Database_get_attachment without its except clause.
MutDatabase_get_attachment(r, default) ==
  IF r.raised THEN Raise(r.exc)
  ELSE ReturnValue("BytesIO", [content |-> r.body["content"], pos |-> 0])

\* Database.get_attachment after its request: io.BytesIO(content) is a
\* stream over the bytes, at position 0.
Database_get_attachment(r, default) ==
  IF r.raised
  THEN IF isinstance(r.exc, "HTTPNotFound") THEN Return(default, 0, 0)
       ELSE Raise(r.exc)
  ELSE ReturnValue("BytesIO", [content |-> r.body["content"], pos |-> 0])

\* Database.get_attachment up to its request.  id_or_doc is a document id
\* (isdoc false: id_or_doc['_id'] raises TypeError and the id is taken as
\* it is) or a mapping; rev is 0 for None.
Database_get_attachment_request(isdoc, id_or_doc, filename, rev) ==
  IF isdoc /\ "_id" \notin DOMAIN id_or_doc
  THEN [raised |-> TRUE, exc |-> Builtin("KeyError", "_id"), q |-> <<>>]
  ELSE LET id == IF isdoc THEN id_or_doc["_id"] ELSE id_or_doc
           rev2 == IF isdoc /\ rev = 0 THEN getitem(id_or_doc, "_rev") ELSE rev
       IN [raised |-> FALSE, exc |-> NoExc,
           q |-> [Request("GET", id, <<"att", filename>>, rev2, FALSE, 0, <<>>)
                    EXCEPT !.path = <<DbName, ToString(id), filename>>,
                           !.params = IF rev2 # 0 THEN [p \in {"rev"} |-> ToString(rev2)]
                                      ELSE <<>>]]

\* db.get_attachment(id_or_doc, filename, default, rev): o names the
\* caller's document when id_or_doc is one, and is "" when it is the id.
DbGetAttachment(o, id, filename, default, rev, n) ==
  /\ Idle
  /\ LET req == IF o = "" THEN Database_get_attachment_request(FALSE, id, filename, rev)
                ELSE Database_get_attachment_request(TRUE, obj[o].items, filename, rev)
         call == [Call("Database.get_attachment", o, IF req.raised THEN 0 ELSE req.q.id,
                       default, FALSE, req.q)
                   EXCEPT !.name = filename, !.kwargs = [k \in {"rev"} |-> rev]]
     IN IF req.raised
        THEN /\ last' = Unsent(call, Raise(req.exc))
             /\ srv' = srv
        ELSE LET e == Send(n, req.q)
             IN /\ srv' = e.srv
                /\ last' = Finished(call, e.x, Database_get_attachment(e.r, default))
  /\ UNCHANGED <<obj, pc, gen, more>>

\* Database.delete_attachment up to its request: params holds the rev,
\* and is replaced by batch=ok when batch is set.
Database_delete_attachment_request(doc, filename, batch) ==
  LET failed(exc) == [raised |-> TRUE, exc |-> exc, q |-> <<>>]
  IN IF "_rev" \notin DOMAIN doc THEN failed(Builtin("KeyError", "_rev"))
     ELSE IF "_id" \notin DOMAIN doc THEN failed(Builtin("KeyError", "_id"))
     ELSE [raised |-> FALSE, exc |-> NoExc,
           q |-> [Request("DELETE", doc["_id"], <<"att", filename>>,
                          IF batch THEN 0 ELSE doc["_rev"], batch, 0, <<>>)
                    EXCEPT !.path = <<DbName, ToString(doc["_id"]), filename>>,
                           !.params = IF batch THEN [p \in {"batch"} |-> "ok"]
                                      ELSE [p \in {"rev"} |-> ToString(doc["_rev"])]]]

\* A variant of Database_delete_attachment that sets _rev whatever the
\* response.
MutDatabase_delete_attachment(doc, r) ==
  IF r.raised THEN [out |-> Raise(r.exc), doc |-> setitem(doc, "_rev", 0)]
  ELSE [out |-> Return("None", doc["_id"], r.body["rev"]),
        doc |-> setitem(doc, "_rev", r.body["rev"])]

\* Database.delete_attachment after its request: no except clause.
Database_delete_attachment(doc, r) ==
  IF r.raised THEN [out |-> Raise(r.exc), doc |-> doc]
  ELSE [out |-> Return("None", doc["_id"], r.body["rev"]),
        doc |-> setitem(doc, "_rev", r.body["rev"])]

\* db.delete_attachment(doc, filename, batch)
DbDeleteAttachment(o, filename, batch, n) ==
  /\ Idle
  /\ obj[o].isdict
  /\ LET req == Database_delete_attachment_request(obj[o].items, filename, batch)
         call == Call("Database.delete_attachment", o, getitem(obj[o].items, "_id"),
                      filename, batch, req.q)
     IN IF req.raised
        THEN /\ last' = Unsent(call, Raise(req.exc))
             /\ UNCHANGED <<srv, obj, more>>
        ELSE LET e == Send(n, req.q)
                 res == Database_delete_attachment(obj[o].items, e.r)
             IN /\ srv' = e.srv
                /\ Bounded(srv')
                /\ last' = Finished(call, e.x, res.out)
                /\ obj' = [obj EXCEPT ![o].items = res.doc]
  /\ UNCHANGED <<pc, gen, more>>

(***************************************************************************)
(* Server.                                                                 *)
(***************************************************************************)

DatabaseExists == CouchDBException("DatabaseExists", "Database already exists")

\* Database.exists, after the HEAD.
Database_exists(r) ==
  IF r.raised
  THEN IF isinstance(r.exc, "HTTPNotFound") THEN Return("False", 0, 0)
       ELSE Raise(r.exc)
  ELSE Return("True", 0, 0)

\* A variant of Server__getitem__ that makes the Database with check=False.
MutServer__getitem__(r) ==
  LET exists == Database_exists(r)
  IN IF exists.raised THEN exists ELSE Return("Database", 0, 0)

\* Database.__init__ with check=True, as Server.__getitem__ calls it:
\* check() raises MissingDatabase unless exists().
Server__getitem__(r) ==
  LET exists == Database_exists(r)
  IN IF exists.raised THEN exists
     ELSE IF exists.ret = "False" THEN Raise(MissingDatabase)
     ELSE Return("Database", 0, 0)

\* server[name]
SrvGetItem(n) ==
  /\ Idle
  /\ LET q == Request("HEAD", 0, <<>>, 0, FALSE, 0, <<>>)
         e == Send(n, q)
     IN /\ srv' = e.srv
        /\ last' = Finished(Call("Server.__getitem__", "", 0, "", FALSE, q), e.x,
                            Server__getitem__(e.r))
  /\ UNCHANGED <<obj, pc, gen, more>>

MutServer_create(r) ==
  IF r.raised THEN Raise(r.exc) ELSE Return("continue", 0, 0)

\* Server.create, after its PUT: the call goes on to self[name] unless the
\* PUT raised.
Server_create(r) ==
  IF r.raised
  THEN IF isinstance(r.exc, "HTTPPreconditionFailed") THEN Raise(DatabaseExists)
       ELSE Raise(r.exc)
  ELSE Return("continue", 0, 0)

\* server.create(name), first request.
SrvCreate(n) ==
  /\ Idle
  /\ LET q == Request("PUT", 0, <<>>, 0, FALSE, 0, <<>>)
         e == Send(n, q)
         out == Server_create(e.r)
     IN /\ srv' = e.srv
        /\ last' = Finished(Call("Server.create", "", 0, "", FALSE, q), e.x, out)
        /\ pc' = IF out.ret = "continue" THEN [NoPc EXCEPT !.op = "Server.create"]
                 ELSE NoPc
  /\ UNCHANGED <<obj, gen, more>>

\* server.create(name), second request: return self[name].
SrvCreateGetItem(n) ==
  /\ pc.op = "Server.create"
  /\ LET q == Request("HEAD", 0, <<>>, 0, FALSE, 0, <<>>)
         e == Send(n, q)
     IN /\ srv' = e.srv
        /\ last' = Finished([last EXCEPT !.sent = q], e.x, Server__getitem__(e.r))
  /\ pc' = NoPc
  /\ UNCHANGED <<obj, gen, more>>

\* Server.__delitem__, after the DELETE.
Server__delitem__(r) ==
  IF r.raised
  THEN IF isinstance(r.exc, "HTTPNotFound") THEN Raise(MissingDatabase)
       ELSE Raise(r.exc)
  ELSE Return("None", 0, 0)

\* del server[name]
SrvDelItem(n) ==
  /\ Idle
  /\ LET q == Request("DELETE", 0, <<>>, 0, FALSE, 0, <<>>)
         e == Send(n, q)
     IN /\ srv' = e.srv
        /\ last' = Finished(Call("Server.__delitem__", "", 0, "", FALSE, q), e.x,
                            Server__delitem__(e.r))
  /\ UNCHANGED <<obj, pc, gen, more>>

\* A variant of Server_add_user without the except clause.
MutServer_add_user(out) ==
  IF out.raised THEN out ELSE Return("save", 0, 0)

\* Server.add_user, its try statement: user_db = self['_users'], given as
\* what that came to, and "except MissingDatabase" that sends the call on to
\* self.create('_users'); any other exception leaves the call.
Server_add_user(out) ==
  IF out.raised
  THEN IF isinstance(out.exc, "MissingDatabase") THEN Return("create", 0, 0)
       ELSE out
  ELSE Return("save", 0, 0)

\* The dict that add_user saves, as far as the server looks at it: the _id
\* made of the user's name, and the type.
user_doc(name) == setitem(Doc("user"), "_id", name)

AddUserPc(at, name) == [NoPc EXCEPT !.op = "Server.add_user: " \o at, !.id = name]

\* server.add_user(name, password), first request: the HEAD of
\* self['_users'].  The one database of the server stands for _users.
SrvAddUser(name, n) ==
  /\ Idle
  /\ LET q == Request("HEAD", 0, <<>>, 0, FALSE, 0, <<>>)
         e == Send(n, q)
         out == Server_add_user(Server__getitem__(e.r))
     IN /\ srv' = e.srv
        /\ last' = Finished(Call("Server.add_user", "", name, "", FALSE, q), e.x, out)
        /\ pc' = IF out.raised THEN NoPc ELSE AddUserPc(out.ret, name)
  /\ UNCHANGED <<obj, gen, more>>

\* server.add_user, in the except clause: the PUT of self.create('_users').
SrvAddUserCreate(n) ==
  /\ pc.op = "Server.add_user: create"
  /\ LET q == Request("PUT", 0, <<>>, 0, FALSE, 0, <<>>)
         e == Send(n, q)
         out == Server_create(e.r)
     IN /\ srv' = e.srv
        /\ last' = Finished([last EXCEPT !.sent = q], e.x, out)
        /\ pc' = IF out.raised THEN NoPc ELSE AddUserPc("getitem", pc.id)
  /\ UNCHANGED <<obj, gen, more>>

\* server.add_user, in the except clause: the HEAD of the self[name] that
\* self.create returns.
SrvAddUserCreateGetItem(n) ==
  /\ pc.op = "Server.add_user: getitem"
  /\ LET q == Request("HEAD", 0, <<>>, 0, FALSE, 0, <<>>)
         e == Send(n, q)
         out == Server__getitem__(e.r)
     IN /\ srv' = e.srv
        /\ last' = Finished([last EXCEPT !.sent = q], e.x,
                            IF out.raised THEN out ELSE Return("save", 0, 0))
        /\ pc' = IF out.raised THEN NoPc ELSE AddUserPc("save", pc.id)
  /\ UNCHANGED <<obj, gen, more>>

\* server.add_user, last request: return user_db.save({...}).
SrvAddUserSave(n) ==
  /\ pc.op = "Server.add_user: save"
  /\ LET q == Database_save_request(user_doc(pc.id), FALSE)
         e == Send(n, q)
     IN /\ srv' = e.srv
        /\ last' = Finished([last EXCEPT !.sent = q], e.x,
                            Database_save(user_doc(pc.id), e.r).out)
  /\ Bounded(srv')
  /\ pc' = NoPc
  /\ UNCHANGED <<obj, gen, more>>

RemoveUserPc(at, name, rev) ==
  [NoPc EXCEPT !.op = "Server.remove_user: " \o at, !.id = name, !.rev = rev]

\* server.remove_user(name), first request: the HEAD of self['_users'].
SrvRemoveUser(name, n) ==
  /\ Idle
  /\ LET q == Request("HEAD", 0, <<>>, 0, FALSE, 0, <<>>)
         e == Send(n, q)
         out == Server__getitem__(e.r)
     IN /\ srv' = e.srv
        /\ last' = Finished(Call("Server.remove_user", "", name, "", FALSE, q), e.x,
                            IF out.raised THEN out ELSE Return("continue", 0, 0))
        /\ pc' = IF out.raised THEN NoPc ELSE RemoveUserPc("head", name, 0)
  /\ UNCHANGED <<obj, gen, more>>

\* server.remove_user, second request: the HEAD of del user_db[doc_id].
SrvRemoveUserHead(n) ==
  /\ pc.op = "Server.remove_user: head"
  /\ LET q == Request("HEAD", pc.id, <<>>, 0, FALSE, 0, <<>>)
         e == Send(n, q)
         out == Database__delitem__(e.r)
     IN /\ srv' = e.srv
        /\ last' = Finished([last EXCEPT !.sent = q], e.x, out)
        /\ pc' = IF out.ret = "continue" THEN RemoveUserPc("delete", pc.id, out.rrev)
                 ELSE NoPc
  /\ UNCHANGED <<obj, gen, more>>

\* server.remove_user, last request: the DELETE of del user_db[doc_id].
SrvRemoveUserDelete(n) ==
  /\ pc.op = "Server.remove_user: delete"
  /\ LET q == Request("DELETE", pc.id, <<>>, pc.rev, FALSE, 0, <<>>)
         e == Send(n, q)
     IN /\ srv' = e.srv
        /\ last' = Finished([last EXCEPT !.sent = q], e.x, Database_delete(e.r))
  /\ Bounded(srv')
  /\ pc' = NoPc
  /\ UNCHANGED <<obj, gen, more>>

(***************************************************************************)
(* Server objects: construction, version and version_info.                 *)
(***************************************************************************)

\* Server(url, session), bound to the caller's name s: session is "" for
\* None or the caller's own Session object.
ServerInit(s, url, session) ==
  /\ Idle
  /\ LET new == Server__init__(s, url, session, sessions)
     IN /\ servers' = [servers EXCEPT ![s] = new.server]
        /\ sessions' = new.sessions
  /\ UNCHANGED <<srv, obj, pc, last, gen, version>>

\* The server is replaced by one that reports another version.
ServerUpgrade(v) ==
  /\ v # version
  /\ version' = v
  /\ last' = IF pc.op = "" THEN NoCall ELSE last
  /\ UNCHANGED <<srv, obj, pc, gen, servers, sessions>>

\* GET / through the session of Server s: the url is "/" joined to the
\* base_url that the session holds at this moment.
root_get(s) ==
  [Request("GET", 0, <<"root">>, 0, FALSE, 0, <<>>)
     EXCEPT !.path = <<sessions[servers[s]._session], "/">>]

SendRoot(n) ==
  LET h == Exchange(n, srv, Answer(200, [version |-> version], srv))
  IN [x |-> h.x, srv |-> h.srv, r |-> client_Session_request(h.x)]

\* Server.version, after the GET: .json()['version'].
Server_version(r) ==
  IF r.raised THEN Raise(r.exc) ELSE ReturnValue("str", r.body["version"])

\* server.version()
SrvVersion(s, n) ==
  /\ Idle
  /\ LET q == root_get(s)
         e == SendRoot(n)
     IN /\ srv' = e.srv
        /\ last' = Finished(Call("Server.version", s, 0, "", FALSE, q), e.x,
                            Server_version(e.r))
  /\ UNCHANGED <<obj, pc, gen, more>>

\* str.split(sep) on a sequence of characters.
RECURSIVE split(_, _)
split(cs, sep) ==
  IF cs = <<>> THEN << <<>> >>
  ELSE LET rest == split(Tail(cs), sep)
       IN IF Head(cs) = sep THEN << <<>> >> \o rest
          ELSE << <<Head(cs)>> \o rest[1] >> \o Tail(rest)

digit(c) ==
  CASE c = "0" -> 0 [] c = "1" -> 1 [] c = "2" -> 2 [] c = "3" -> 3 [] c = "4" -> 4
    [] c = "5" -> 5 [] c = "6" -> 6 [] c = "7" -> 7 [] c = "8" -> 8 [] c = "9" -> 9
    [] OTHER -> -1

\* int(text) for a text of decimal digits; -1 stands for the ValueError
\* that any other text raises.
RECURSIVE parse_int(_, _)
parse_int(cs, acc) ==
  IF cs = <<>> THEN acc
  ELSE IF digit(Head(cs)) < 0 THEN -1
  ELSE parse_int(Tail(cs), 10 * acc + digit(Head(cs)))

int_of(cs) == IF cs = <<>> THEN -1 ELSE parse_int(cs, 0)

\* tuple(map(int, version.split('.')))
version_tuple(v) ==
  LET parts == split(v, ".") IN [i \in 1..Len(parts) |-> int_of(parts[i])]

\* A variant of Server_version_info that keeps nothing.
MutServer_version_info(_version_info, out) ==
  IF _version_info # <<>>
  THEN [out |-> ReturnValue("tuple", _version_info), _version_info |-> _version_info]
  ELSE IF out.raised THEN [out |-> out, _version_info |-> <<>>]
  ELSE LET t == version_tuple(out.value)
       IN IF \E i \in 1..Len(t) : t[i] < 0
          THEN [out |-> Raise(Builtin("ValueError", "")), _version_info |-> <<>>]
          ELSE [out |-> ReturnValue("tuple", t), _version_info |-> <<>>]

\* Server.version_info: what the call comes to and what self._version_info
\* holds afterwards, given what it held (<<>> for None) and, when it held
\* None, what self.version() came to.
Server_version_info(_version_info, out) ==
  IF _version_info # <<>>
  THEN [out |-> ReturnValue("tuple", _version_info), _version_info |-> _version_info]
  ELSE IF out.raised THEN [out |-> out, _version_info |-> <<>>]
  ELSE LET t == version_tuple(out.value)
       IN IF \E i \in 1..Len(t) : t[i] < 0
          THEN [out |-> Raise(Builtin("ValueError", "")), _version_info |-> <<>>]
          ELSE [out |-> ReturnValue("tuple", t), _version_info |-> t]

\* server.version_info()
SrvVersionInfo(s, n) ==
  /\ Idle
  /\ LET q == root_get(s)
         e == SendRoot(n)
         call == Call("Server.version_info", s, 0, "", FALSE, q)
         cached == servers[s]._version_info
         res == Server_version_info(cached, Server_version(e.r))
     IN /\ srv' = IF cached = <<>> THEN e.srv ELSE srv
        /\ last' = IF cached = <<>> THEN Finished(call, e.x, res.out)
                   ELSE Unsent([call EXCEPT !.sent = <<>>], res.out)
        /\ servers' = [servers EXCEPT ![s]._version_info = res._version_info]
  /\ UNCHANGED <<obj, pc, gen, sessions, version>>

(***************************************************************************)
(* Database.update: the bulk update.                                       *)
(***************************************************************************)

\* The server's result for one document of a _bulk_docs request with
\* new_edits=true, and its next state.
srv_bulk_doc(s, doc, forbidden) ==
  LET id == IF "_id" \in DOMAIN doc THEN doc["_id"] ELSE uuid(s)
      rev == getitem(doc, "_rev")
  IN IF forbidden
     THEN [entry |-> [id |-> id, error |-> "forbidden", reason |-> "rejected by validation"],
           srv |-> s]
     ELSE IF ~Accepts(s, id, rev)
     THEN [entry |-> [id |-> id, error |-> "conflict",
                      reason |-> "Document update conflict."],
           srv |-> s]
     ELSE [entry |-> [ok |-> TRUE, id |-> id, rev |-> s.docs[id].rev + 1],
           srv |-> Store(s, id, TRUE)]

\* new_edits=true: one result per document, in the order of the request.
RECURSIVE srv_bulk_new_edits(_, _, _, _)
srv_bulk_new_edits(s, docs, forbid, i) ==
  IF i > Len(docs) THEN [data |-> <<>>, srv |-> s]
  ELSE LET one == srv_bulk_doc(s, docs[i], i \in forbid)
           rest == srv_bulk_new_edits(one.srv, docs, forbid, i + 1)
       IN [data |-> <<one.entry>> \o rest.data, srv |-> rest.srv]

\* new_edits=false: each document is stored under the revision it names;
\* the response lists the documents that were rejected and no others.
RECURSIVE srv_bulk_replicated(_, _, _, _)
srv_bulk_replicated(s, docs, forbid, i) ==
  IF i > Len(docs) THEN [data |-> <<>>, srv |-> s]
  ELSE LET id == docs[i]["_id"]
           rev == docs[i]["_rev"]
           top == IF rev > s.docs[id].rev THEN rev ELSE s.docs[id].rev
           stored == [s EXCEPT !.docs[id] = [rev |-> top, live |-> TRUE],
                               !.atts[id] = [k \in 1..top |->
                                               IF k <= Len(s.atts[id]) THEN s.atts[id][k]
                                               ELSE ""]]
           rest == srv_bulk_replicated(IF i \in forbid THEN s ELSE stored, docs, forbid,
                                       i + 1)
       IN [data |-> (IF i \in forbid
                     THEN <<[id |-> id, error |-> "forbidden",
                             reason |-> "rejected by validation"]>>
                     ELSE <<>>) \o rest.data,
           srv |-> rest.srv]

\* POST /{db}/_bulk_docs; forbid holds the positions of the documents that
\* the database's validation rejects.
srv_bulk_docs(s, payload, forbid) ==
  IF ~s.exists THEN Answer(404, <<>>, s)
  ELSE LET done == IF payload.new_edits
                   THEN srv_bulk_new_edits(s, payload.docs, forbid, 1)
                   ELSE srv_bulk_replicated(s, payload.docs, forbid, 1)
       IN Answer(201, done.data, done.srv)

RECURSIVE Mutupdate_loop(_, _, _)
Mutupdate_loop(data, documents, idx) ==
  IF idx > Len(data) THEN [results |-> <<>>, documents |-> documents]
  ELSE LET result == data[idx]
           rest == Mutupdate_loop(
                     data,
                     [documents EXCEPT ![idx].items =
                        update_id_rev(@, result.id, getitem(result, "rev"))],
                     idx + 1)
       IN [results |-> <<[success |-> "error" \notin DOMAIN result, id |-> result.id,
                          rev |-> getitem(result, "rev"),
                          exc |-> IF "error" \in DOMAIN result
                                  THEN CouchDBException(
                                         IF result.error = "conflict"
                                         THEN "UpdateConflict" ELSE "CouchDBException",
                                         result.reason)
                                  ELSE NoExc]>> \o rest.results,
           documents |-> rest.documents]

\* The loop of Database.update over enumerate(data), from position idx on:
\* the outcomes, and the caller's documents as the loop leaves them.
RECURSIVE update_loop(_, _, _)
update_loop(data, documents, idx) ==
  IF idx > Len(data) THEN [results |-> <<>>, documents |-> documents]
  ELSE LET result == data[idx]
       IN IF "error" \in DOMAIN result
          THEN LET exc_type == IF result.error = "conflict" THEN "UpdateConflict"
                               ELSE "CouchDBException"
                   rest == update_loop(data, documents, idx + 1)
               IN [results |-> <<[success |-> FALSE, id |-> result.id, rev |-> 0,
                                  exc |-> CouchDBException(exc_type, result.reason)]>>
                                 \o rest.results,
                   documents |-> rest.documents]
          ELSE LET doc == documents[idx]
                   new == IF doc.isdict
                          THEN [doc EXCEPT !.items = update_id_rev(doc.items, result.id,
                                                                   result.rev)]
                          ELSE doc
                   rest == update_loop(data, [documents EXCEPT ![idx] = new], idx + 1)
               IN [results |-> <<[success |-> TRUE, id |-> result.id, rev |-> result.rev,
                                  exc |-> NoExc]>> \o rest.results,
                   documents |-> rest.documents]

\* The docs of the payload: a dict as it is, another record as
\* dict(doc.items()).
payload_docs(documents) == [i \in 1..Len(documents) |-> documents[i].items]

\* Database.update, after the POST.
Database_update(documents, r) ==
  IF r.raised THEN [out |-> Raise(r.exc), results |-> <<>>, documents |-> documents]
  ELSE LET done == update_loop(r.body, documents, 1)
       IN [out |-> Return("list", 0, 0), results |-> done.results,
           documents |-> done.documents]

\* The kind of the element that the caller passes under the name o: one
\* of its documents, or an object that is neither a dict nor offers items().
kind_of(objs, o) ==
  IF o \notin DOMAIN objs THEN "other"
  ELSE IF objs[o].isdict THEN "dict" ELSE "items"

\* Database.update and Database.purge, the loop over the elements before
\* the request: the first element that is neither a dict nor offers
\* items() raises TypeError.
Database_update_docs(kinds) ==
  IF \E i \in 1..Len(kinds) : kinds[i] = "other"
  THEN Raise(TypeError("expected dict"))
  ELSE Return("continue", 0, 0)

\* POST /{db}/_purge: every document that is named with its current
\* revision is removed with its history.
srv_purge(s, content) ==
  IF ~s.exists THEN Answer(404, <<>>, s)
  ELSE LET purged == {id \in Ids(s) :
                        /\ s.docs[id].rev > 0
                        /\ \E i \in 1..Len(content) :
                             content[i].id = id /\ content[i].rev = s.docs[id].rev}
       IN Answer(201, [purged |-> purged],
                 [s EXCEPT !.docs = [id \in Ids(s) |->
                                       IF id \in purged THEN [rev |-> 0, live |-> FALSE]
                                       ELSE s.docs[id]],
                           !.atts = [id \in Ids(s) |->
                                       IF id \in purged THEN <<>> ELSE s.atts[id]]])

\* Database.purge up to its request: content[doc['_id']] = [doc['_rev']]
\* for every element.
Database_purge_request(objs, input) ==
  LET failed(exc) == [raised |-> TRUE, exc |-> exc, q |-> <<>>]
      checked == Database_update_docs([i \in 1..Len(input) |-> kind_of(objs, input[i])])
  IN IF checked.raised THEN failed(checked.exc)
     ELSE IF \E i \in 1..Len(input) : "_id" \notin DOMAIN objs[input[i]].items
     THEN failed(Builtin("KeyError", "_id"))
     ELSE IF \E i \in 1..Len(input) : "_rev" \notin DOMAIN objs[input[i]].items
     THEN failed(Builtin("KeyError", "_rev"))
     ELSE [raised |-> FALSE, exc |-> NoExc,
           q |-> Request("POST", 0, <<"", "_purge">>, 0, FALSE, 0,
                         [i \in 1..Len(input) |->
                            [id |-> objs[input[i]].items["_id"],
                             rev |-> objs[input[i]].items["_rev"]]])]

\* Database.purge after its request.
Database_purge(r) ==
  IF r.raised THEN Raise(r.exc) ELSE ReturnValue("dict", r.body)

\* db.purge(docs)
DbPurge(input, n) ==
  /\ Idle
  /\ LET req == Database_purge_request(obj, input)
         call == [NoCall EXCEPT !.op = "Database.purge", !.docs = input, !.sent = req.q]
     IN IF req.raised
        THEN /\ srv' = srv
             /\ last' = Unsent(call, Raise(req.exc))
        ELSE LET h == Exchange(n, srv, srv_purge(srv, req.q.json))
             IN /\ srv' = h.srv
                /\ last' = Finished(call, h.x, Database_purge(client_Session_request(h.x)))
  /\ UNCHANGED <<obj, pc, gen, more>>

\* The sequences of documents the caller passes to update.
Inputs == {<<"o1">>, <<"o2">>, <<"o1", "o2">>, <<"o2", "o1">>}

\* db.update(documents, new_edits).  With new_edits=False every document
\* names its _id and _rev.
DbUpdate(input, new_edits, forbid, n) ==
  /\ Idle
  /\ LET checked == Database_update_docs([i \in 1..Len(input) |-> kind_of(obj, input[i])])
         documents == [i \in 1..Len(input) |-> obj[input[i]]]
         docs == payload_docs(documents)
         q == [method |-> "POST", id |-> 0, sub |-> <<"", "_bulk_docs">>, rev |-> 0,
               batch |-> FALSE, dest |-> 0,
               json |-> [docs |-> docs, new_edits |-> new_edits]]
         h == Exchange(n, srv, srv_bulk_docs(srv, q.json, forbid))
         r == client_Session_request(h.x)
         res == Database_update(documents, r)
         call == [NoCall EXCEPT !.op = "Database.update", !.docs = input,
                                !.batch = new_edits]
     IN IF checked.raised
        THEN /\ last' = Unsent(call, checked)
             /\ UNCHANGED <<srv, obj>>
        ELSE /\ forbid \subseteq 1..Len(input)
             /\ new_edits =>
                  Cardinality({i \in 1..Len(docs) : "_id" \notin DOMAIN docs[i]})
                    <= Cardinality(FreshIds(srv))
             /\ ~new_edits
                  => \A i \in 1..Len(docs) : {"_id", "_rev"} \subseteq DOMAIN docs[i]
             /\ srv' = h.srv
             /\ obj' = [o \in Objs |->
                          IF \E i \in 1..Len(input) : input[i] = o
                          THEN res.documents[CHOOSE i \in 1..Len(input) : input[i] = o]
                          ELSE obj[o]]
             /\ last' = [Finished([call EXCEPT !.sent = q], h.x, res.out)
                         EXCEPT !.results = res.results]
  /\ Bounded(srv')
  /\ UNCHANGED <<pc, gen, more>>

(***************************************************************************)
(* The specifications.                                                     *)
(***************************************************************************)

\* The operations on one document and on the database, by one caller that
\* holds the document o1, beside other clients of the server.
Next ==
  \/ Return_
  \/ \E id \in Ids(srv) : OtherClientWrite(id)
  \/ OtherClientDeleteDb
  \/ \E id \in Ids(srv), n \in Nets : DbGetItem(id, n)
  \/ \E id \in Ids(srv), default \in {"None", "default"}, n \in Nets :
       DbGet(id, default, <<>>, n)
  \/ \E id \in Ids(srv), n \in Nets : DbContains(id, n)
  \/ \E n \in Nets : DbLen(n)
  \/ \E name \in ViewNames, n \in Nets : DbQueryView(name[1], name[2], <<>>, n)
  \/ \E batch \in BOOLEAN, n \in Nets : DbSave("o1", batch, n)
  \/ \E id \in Ids(srv), n \in Nets : DbSetItem(id, "o1", n)
  \/ \E n \in Nets : DbDelete("o1", n)
  \/ \E id \in Ids(srv), n \in Nets : DbDelItem(id, n)
  \/ \E n \in Nets : DbDelItemDelete(n)
  \/ \E src \in Ids(srv), dest_id \in Ids(srv), dest_rev \in 0..MaxRev, n \in Nets :
       DbCopy("str", IF dest_rev = 0 THEN "str" ELSE "dict", src, dest_id, dest_rev, n)
  \/ \E n \in Nets : SrvGetItem(n)
  \/ \E n \in Nets : SrvCreate(n)
  \/ \E n \in Nets : SrvCreateGetItem(n)
  \/ \E n \in Nets : SrvDelItem(n)
  \/ \E name \in Ids(srv), n \in Nets : SrvAddUser(name, n)
  \/ \E n \in Nets : SrvAddUserCreate(n)
  \/ \E n \in Nets : SrvAddUserCreateGetItem(n)
  \/ \E n \in Nets : SrvAddUserSave(n)
  \/ \E name \in Ids(srv), n \in Nets : SrvRemoveUser(name, n)
  \/ \E n \in Nets : SrvRemoveUserHead(n)
  \/ \E n \in Nets : SrvRemoveUserDelete(n)

Spec == Init /\ [][Next]_vars

\* The error taxonomy and the two Session classes on their own.
NextErr ==
  \/ Return_
  \/ \E status_code \in StatusCodes, message \in {"", "reason"} :
       HttpErrorLookup(status_code, message)
  \/ \E impl \in {"client", "session"}, method \in Methods, f \in Faults :
       SessionRequest(impl, method, Failure(f))
  \/ \E impl \in {"client", "session"}, method \in Methods, status \in StatusCodes :
       SessionRequest(impl, method, Response(status, <<>>))

InitErr == Init /\ srv.exists

SpecErr == InitErr /\ [][NextErr]_vars

\* Saving and bulk-updating the caller's two documents, in an existing
\* database, beside another client that writes.
NextBulk ==
  \/ Return_
  \/ \E id \in Ids(srv) : OtherClientWrite(id)
  \/ \E o \in Objs, batch \in BOOLEAN, n \in Nets : DbSave(o, batch, n)
  \/ \E input \in Inputs, new_edits \in BOOLEAN, forbid \in SUBSET {1, 2}, n \in Nets :
       DbUpdate(input, new_edits, forbid, n)

InitBulk == InitWith(MaxIds) /\ srv.exists

SpecBulk == InitBulk /\ [][NextBulk]_vars

\* The keyword arguments that the queries are made with: every way to give
\* the boolean flags as True or False, every way to give the key parameters
\* as a str or an int, the numbers, and update with and without include_docs.
FlagNames == {"sorted", "descending", "group", "include_docs", "reduce"}
KeyNames == {"key", "keys", "startkey", "endkey"}
UpdateValues == {Str("true"), Str("false"), Str("lazy"), Str("yes"), Str(""), True}

QueryKwargs ==
  Kwargs(FlagNames, {True, False})
    \cup Kwargs(KeyNames, {Str("foo"), int(1)})
    \cup {[n \in {"keys"} |-> List("foo")], [n \in {"include_docs", "reduce"} |-> None]}
    \cup Kwargs({"skip", "limit", "group_level"}, {int(1)})
    \cup {[n \in {"update"} |-> u] : u \in UpdateValues \cup {None}}
    \cup {[n \in {"update", "include_docs"} |-> IF n = "update" THEN u ELSE True] :
            u \in UpdateValues}

GetFlagNames ==
  {"conflicts", "deleted_conflicts", "latest", "local_seq", "meta", "revs", "revs_info"}

GetKwargs ==
  Kwargs({"conflicts", "revs", "meta"}, {True, False})
    \cup {[n \in {f} |-> v] : f \in GetFlagNames, v \in {True, False}}
    \cup {[n \in GetFlagNames |-> v] : v \in {True, False}}
    \cup {[n \in {"rev"} |-> Str("1")], [n \in {"atts_since"} |-> True],
          [n \in {"open_revs"} |-> Str("all")], [n \in {"att_encoding_info"} |-> False],
          [n \in {"revs"} |-> None]}

\* The names that Database.view is called with.
ViewNameInputs ==
  {<<"_", "a", "l", "l", "_", "d", "o", "c", "s">>, <<"_", "a", "/", "b">>,
   <<"d", "d", "/", "v">>, <<"d", "/", "v", "/", "w">>, <<"/", "v">>, <<"v">>, <<>>}

ViewOptions ==
  {<<>>, [n \in {"include_docs"} |-> True], [n \in {"key"} |-> Str("foo")],
   [n \in {"update"} |-> Str("yes")], [n \in {"sorted", "reduce"} |-> False]}

\* The queries: views and documents read with every combination of
\* parameters, from a database that the caller saves its document to.
NextQuery ==
  \/ Return_
  \/ \E n \in Nets : DbSave("o1", FALSE, n)
  \/ \E name \in ViewNames, kwargs \in QueryKwargs, n \in Nets :
       DbQueryView(name[1], name[2], kwargs, n)
  \/ \E name \in ViewNameInputs, options \in ViewOptions, n \in Nets :
       DbView(name, options, n)
  \/ \E id \in Ids(srv), kwargs \in GetKwargs, n \in Nets : DbGet(id, "None", kwargs, n)

InitQuery == Init /\ srv.exists

SpecQuery == InitQuery /\ [][NextQuery]_vars

\* Attachments: the caller saves its document, uploads attachments to it
\* and reads them, by id and by document, beside another client that
\* writes the document.
NextAtt ==
  \/ Return_
  \/ \E id \in Ids(srv) : OtherClientWrite(id)
  \/ \E n \in Nets : DbSave("o1", FALSE, n)
  \/ \E content \in Contents, filename \in {FileName, ""}, n \in Nets :
       DbPutAttachment("o1", content, filename, n)
  \/ \E filename \in FileNames, batch \in BOOLEAN, n \in Nets :
       DbDeleteAttachment("o1", filename, batch, n)
  \/ \E o \in {"", "o1"}, id \in Ids(srv), filename \in FileNames,
        default \in {"None", "default"}, rev \in 0..MaxRev, n \in Nets :
       DbGetAttachment(o, id, filename, default, rev, n)

InitAtt == Init /\ srv.exists

SpecAtt == InitAtt /\ [][NextAtt]_vars

\* The revision history: the caller saves its document again and again and
\* walks the revisions of a document, beside other clients that write the
\* document or delete the database.
NextRev ==
  \/ Return_
  \/ \E id \in Ids(srv) : OtherClientWrite(id)
  \/ OtherClientDeleteDb
  \/ \E n \in Nets : DbSave("o1", FALSE, n)
  \/ \E id \in Ids(srv) : DbRevisions(id)
  \/ \E n \in Nets : GenNext(n)
  \/ \E n \in Nets : GenNextGet(n)
  \/ GenNextStop

InitRev == Init /\ srv.exists

SpecRev == InitRev /\ [][NextRev]_vars

\* The caller's Server objects: constructing them, with a session of
\* their own or with the caller's, and asking them for the version, beside
\* a server that changes its version.
NextSrv ==
  \/ Return_
  \/ \E s \in ServerNames, url \in Urls, session \in {"", CallerSession} :
       ServerInit(s, url, session)
  \/ \E v \in Versions : ServerUpgrade(v)
  \/ \E s \in ServerNames, n \in Nets : SrvVersion(s, n)
  \/ \E s \in ServerNames, n \in Nets : SrvVersionInfo(s, n)

InitSrv == Init /\ srv.exists

SpecSrv == InitSrv /\ [][NextSrv]_vars

\* The operations that are not implemented, called with any arguments
\* beside the saving of a document and another client's writes.
NextStub ==
  \/ Return_
  \/ \E id \in Ids(srv) : OtherClientWrite(id)
  \/ \E n \in Nets : DbSave("o1", FALSE, n)
  \/ \E name \in Stubs, args \in {"", "name", "_design/d"} : DbStub(name, args)
  \/ IterviewNext

InitStub == Init /\ srv.exists

SpecStub == InitStub /\ [][NextStub]_vars

\* The operations that write into the caller's documents: save,
\* db[id] = doc, put_attachment, delete_attachment and update, on the
\* caller's two documents, beside another client that writes.
NextFrame ==
  \/ Return_
  \/ \E id \in Ids(srv) : OtherClientWrite(id)
  \/ \E o \in Objs, batch \in BOOLEAN, n \in Nets : DbSave(o, batch, n)
  \/ \E id \in Ids(srv), n \in Nets : DbSetItem(id, "o1", n)
  \/ \E content \in Contents, n \in Nets : DbPutAttachment("o1", content, FileName, n)
  \/ \E batch \in BOOLEAN, n \in Nets : DbDeleteAttachment("o1", FileName, batch, n)
  \/ \E input \in Inputs, new_edits \in BOOLEAN, forbid \in SUBSET {1, 2}, n \in Nets :
       DbUpdate(input, new_edits, forbid, n)

InitFrame == Init /\ srv.exists

SpecFrame == InitFrame /\ [][NextFrame]_vars

\* The sequences that the caller passes to update and purge when some
\* element, named x, is neither a dict nor offers items().
InputsAny == {<<"x">>, <<"o1", "x">>, <<"x", "o1">>, <<"o1">>, <<"o1", "o2">>}

\* The dicts that the caller passes to delete: _id may be None (0).
DeleteDocs ==
  {[k \in {"_id", "_rev"} |-> IF k = "_id" THEN 0 ELSE 1], [k \in {"_id"} |-> 0],
   [k \in {"_id", "_rev"} |-> 1]}

\* The operations that check their arguments, called with arguments that
\* pass and with arguments that do not.
NextReject ==
  \/ Return_
  \/ \E n \in Nets : DbSave("o1", FALSE, n)
  \/ \E input \in InputsAny, new_edits \in BOOLEAN, n \in Nets :
       DbUpdate(input, new_edits, {}, n)
  \/ \E input \in InputsAny, n \in Nets : DbPurge(input, n)
  \/ \E src_kind \in Kinds, dest_kind \in Kinds, src \in Ids(srv), dest_id \in Ids(srv),
        n \in Nets :
       DbCopy(src_kind, dest_kind, src, dest_id, 0, n)
  \/ \E doc \in DeleteDocs, n \in Nets : DbDeleteDict(doc, n)
  \/ \E content \in Contents, filename \in {FileName, ""}, n \in Nets :
       DbPutAttachment("o1", content, filename, n)

InitReject == Init /\ srv.exists

SpecReject == InitReject /\ [][NextReject]_vars

\* The verb helpers of the two Session classes, with and without their
\* keyword arguments, over exchanges that fail and that succeed.
NextVerb ==
  \/ Return_
  \/ \E impl \in {"client", "session"}, verb \in Verbs, url \in {"db", "db/doc"},
        data \in {"", "d"}, json \in {"", "j"}, timeout \in {"", "t"},
        x \in {Failure(f) : f \in Faults}
                \cup {Response(status, <<>>) : status \in {200, 201, 404, 409, 500}} :
       SessionVerb(impl, verb, url, data, json, timeout, x)

InitVerb == Init /\ srv.exists

SpecVerb == InitVerb /\ [][NextVerb]_vars

(***************************************************************************)
(* The claims.                                                             *)
(***************************************************************************)

\* C1: http_error_lookup maps 400, 401, 403, 404, 409 and 412 to
\* HTTPBadRequest, HTTPUnauthorized, HTTPForbidden, HTTPNotFound,
\* HTTPConflict and HTTPPreconditionFailed, and every other code to a plain
\* HTTPError; the error's status_code is the code it was given.  The same
\* holds of the error that Session.request raises for a response with that
\* status.
C1_Lookup ==
  (last.op = "http_error_lookup" \/ (last.op = "Session.request" /\ last.status >= 400))
    => /\ last.exc.status_code = last.status
       /\ last.exc.cls =
            CASE last.status = 400 -> "HTTPBadRequest"
              [] last.status = 401 -> "HTTPUnauthorized"
              [] last.status = 403 -> "HTTPForbidden"
              [] last.status = 404 -> "HTTPNotFound"
              [] last.status = 409 -> "HTTPConflict"
              [] last.status = 412 -> "HTTPPreconditionFailed"
              [] OTHER -> "HTTPError"

C1_Witness ==
  /\ last.op = "http_error_lookup"
  /\ last.status = 412
  /\ last.exc.cls = "HTTPPreconditionFailed"
  /\ last.exc.status_code = 412

\* C2: a request through a Session whose transport fails raises the
\* library's Timeout when the transport timed out and the library's
\* RequestsException for any other transport failure, never the
\* transport's own exception.
C2_TransportWrapped ==
  (last.op = "Session.request" /\ last.net # "none")
    => /\ last.raised
       /\ last.exc.cls = IF issubclass(last.net, "requests.Timeout") THEN "Timeout"
                         ELSE "RequestsException"

\* C3: for a document id that does not exist in an existing database, db[id]
\* raises MissingDocument and db.get(id, default) returns the default the
\* caller supplied (None when it supplied none).
C3_MissingDocument ==
  (srv.exists /\ last.status = 404 /\ last.id \in Ids(srv) /\ ~srv.docs[last.id].live)
    => /\ last.op = "Database.__getitem__"
            => last.raised /\ last.exc.cls = "MissingDocument"
       /\ last.op = "Database.get" => ~last.raised /\ last.ret = last.arg

C3_Witness ==
  /\ last.op = "Database.get"
  /\ srv.exists
  /\ ~srv.docs[last.id].live
  /\ last.status = 404
  /\ last.arg = "default"
  /\ ~last.raised
  /\ last.ret = "default"

\* C4: a document write (save, db[id] = doc, delete, del db[id], copy) that
\* the server rejects with 409 raises UpdateConflict.
C4_ConflictIsUpdateConflict ==
  (/\ last.op \in {"Database.save", "Database.__setitem__", "Database.delete",
                   "Database.__delitem__", "Database.copy"}
   /\ last.status = 409)
    => last.raised /\ last.exc.cls = "UpdateConflict"

\* C5: no call of Server or Database that received a 404 raises the raw
\* HTTPNotFound: it raises MissingDatabase, MissingDocument or MissingView,
\* or returns False or the default.
C5_NotFoundRefined ==
  (last.op \notin {"", "Session.request", "http_error_lookup"} /\ last.status = 404)
    => \/ last.raised
          /\ last.exc.cls \in {"MissingDatabase", "MissingDocument", "MissingView"}
       \/ ~last.raised /\ last.ret \in {"False", "None", "default"}

\* C6: when the server answers the PUT of Server.create with 412, create
\* raises DatabaseExists, sends no further request and returns no
\* Database, and the server is as it was.
C6_DatabaseExists ==
  [][(last'.op = "Server.create" /\ last'.status = 412)
       => /\ last'.raised
          /\ last'.exc.cls = "DatabaseExists"
          /\ last'.ret = ""
          /\ pc' = NoPc
          /\ srv.exists
          /\ srv' = srv]_vars

C6_Witness ==
  /\ last.op = "Server.create"
  /\ last.status = 412
  /\ last.raised
  /\ last.exc.cls = "DatabaseExists"
  /\ srv.exists

\* C7 as claimed: after a successful save(doc), with batch false or true, or
\* db[id] = doc, doc['_id'] and doc['_rev'] are the id and the revision
\* under which the server holds the document.
C7_IdRevAssigned ==
  (last.op \in {"Database.save", "Database.__setitem__"} /\ ~last.raised)
    => LET d == obj[last.o].items
       IN /\ {"_id", "_rev"} \subseteq DOMAIN d
          /\ d["_id"] \in Ids(srv)
          /\ srv.docs[d["_id"]] = [rev |-> d["_rev"], live |-> TRUE]

\* C7 as amended: a successful save(doc) with batch false, or db[id] = doc,
\* sets doc['_id'] and doc['_rev'] to the id and the revision under which the
\* server now holds the document; a successful save(doc) with batch true sets
\* doc['_id'] alone and leaves doc['_rev'] as it was (absent if it was
\* absent).  Every other key of doc, and every other object, is unchanged.
C7_SaveInPlace ==
  [][(last'.op \in {"Database.save", "Database.__setitem__"} /\ ~last'.raised)
       => LET o == last'.o
              d == obj[o].items
              d2 == obj'[o].items
          IN /\ \A k \in DOMAIN d \ {"_id", "_rev"} : k \in DOMAIN d2 /\ d2[k] = d[k]
             /\ \A p \in Objs \ {o} : obj'[p] = obj[p]
             /\ obj'[o].isdict = obj[o].isdict
             /\ "_id" \in DOMAIN d2
             /\ d2["_id"] \in Ids(srv')
             /\ last'.op = "Database.__setitem__" => d2["_id"] = last'.id
             /\ (last'.op = "Database.save" /\ "_id" \in DOMAIN d) => d2["_id"] = d["_id"]
             /\ (last'.op = "Database.save" /\ "_id" \notin DOMAIN d)
                  => ~Live(srv, d2["_id"]) /\ Live(srv', d2["_id"])
             /\ IF last'.batch
                THEN /\ DOMAIN d2 = DOMAIN d \cup {"_id"}
                     /\ "_rev" \in DOMAIN d => d2["_rev"] = d["_rev"]
                ELSE /\ DOMAIN d2 = DOMAIN d \cup {"_id", "_rev"}
                     /\ srv'.docs[d2["_id"]] = [rev |-> d2["_rev"], live |-> TRUE]
                     /\ srv'.docs[d2["_id"]] # srv.docs[d2["_id"]]]_vars

C7_Witness ==
  /\ last.op = "Database.save"
  /\ last.batch
  /\ ~last.raised
  /\ last.status = 202
  /\ "_id" \in DOMAIN obj["o1"].items
  /\ "_rev" \notin DOMAIN obj["o1"].items
  /\ Live(srv, obj["o1"].items["_id"])

\* C8: a successful save of a document that carries no _id creates a
\* document under an id that no document of the database has, so that two
\* such saves of equal content give two documents with two ids; a successful
\* save of a document that carries the _id and _rev of an earlier save sends
\* them, keeps the id, adds no document and (with batch false) gives the
\* document a new revision.
C8_SaveCreatesOrUpdates ==
  [][(last'.op = "Database.save" /\ ~last'.raised)
       => LET d == obj[last'.o].items
              d2 == obj'[last'.o].items
          IN /\ "_id" \notin DOMAIN d
                  => /\ ~Live(srv, d2["_id"])
                     /\ Live(srv', d2["_id"])
                     /\ \A p \in Objs \ {last'.o} :
                          "_id" \in DOMAIN obj[p].items => obj[p].items["_id"] # d2["_id"]
                     /\ doc_count(srv') = doc_count(srv) + 1
             /\ {"_id", "_rev"} \subseteq DOMAIN d
                  => /\ last'.sent.json = d
                     /\ d2["_id"] = d["_id"]
                     /\ doc_count(srv') = doc_count(srv)
                     /\ ~last'.batch
                          => /\ d2["_rev"] # d["_rev"]
                             /\ srv'.docs[d["_id"]] = [rev |-> d2["_rev"], live |-> TRUE]]_vars

\* Two saves of the two id-less documents of equal content have made two
\* documents, and the second save of o1 has given it a new revision.
C8_Witness ==
  /\ last.op = "Database.save"
  /\ last.o = "o1"
  /\ ~last.raised
  /\ obj["o1"].items["type"] = obj["o2"].items["type"]
  /\ {"_id", "_rev"} \subseteq DOMAIN obj["o1"].items
  /\ {"_id", "_rev"} \subseteq DOMAIN obj["o2"].items
  /\ obj["o1"].items["_id"] # obj["o2"].items["_id"]
  /\ doc_count(srv) = 2
  /\ obj["o1"].items["_rev"] = 2
  /\ last.sent.json["_rev"] = 1

\* C9: update(documents) returns one outcome per document, in the order of
\* the documents, with new_edits true or false: (True, id, rev) for a
\* document that was stored, (False, id, exc) otherwise, exc an
\* UpdateConflict exactly when the server reported a conflict and a plain
\* CouchDBException otherwise.
C9_OutcomesAligned ==
  (last.op = "Database.update" /\ ~last.raised)
    => /\ Len(last.results) = Len(last.docs)
       /\ \A i \in 1..Len(last.results) :
            LET res == last.results[i]
                d == obj[last.docs[i]].items
            IN /\ "_id" \in DOMAIN d => res.id = d["_id"]
               /\ res.success => srv.docs[res.id] = [rev |-> res.rev, live |-> TRUE]
               /\ ~res.success
                    => /\ res.exc.cls \in {"UpdateConflict", "CouchDBException"}
                       /\ res.exc.cls = "UpdateConflict"
                            <=> res.exc.message = "Document update conflict."

\* C10 as claimed: after update(documents) every document whose outcome is a
\* success, dict or not, carries the id and the revision of its outcome, and
\* every document whose outcome is a failure is as it was.
C10_EveryDocumentMutated ==
  [][(last'.op = "Database.update" /\ ~last'.raised)
       => \A i \in 1..Len(last'.results) :
            LET o == last'.docs[i]
                res == last'.results[i]
            IN IF res.success
               THEN obj'[o].items = update_id_rev(obj[o].items, res.id, res.rev)
               ELSE obj'[o] = obj[o]]_vars

\* C10 as amended: after update(documents) every document that is a dict and
\* whose outcome is a success carries the id and the revision of its outcome
\* and is otherwise as it was; every document that is not a dict (a record
\* that only offers items()), every document whose outcome is a failure and
\* every document without an outcome is exactly as it was.
C10_DictsMutated ==
  [][(last'.op = "Database.update" /\ ~last'.raised)
       => /\ \A i \in 1..Len(last'.docs) :
               LET o == last'.docs[i]
               IN IF i <= Len(last'.results) /\ last'.results[i].success /\ obj[o].isdict
                  THEN /\ obj'[o].isdict
                       /\ obj'[o].items = update_id_rev(obj[o].items, last'.results[i].id,
                                                        last'.results[i].rev)
                  ELSE obj'[o] = obj[o]
          /\ \A o \in Objs : (\A i \in 1..Len(last'.docs) : last'.docs[i] # o)
                               => obj'[o] = obj[o]]_vars

\* The bulk update of two dicts where the server reports a conflict for the
\* second: the first carries its new revision, the second has none.
C10_Witness ==
  /\ last.op = "Database.update"
  /\ ~last.raised
  /\ Len(last.docs) = 2
  /\ Len(last.results) = 2
  /\ last.results[1].success
  /\ ~last.results[2].success
  /\ last.results[2].exc.cls = "UpdateConflict"
  /\ obj[last.docs[1]].isdict /\ obj[last.docs[2]].isdict
  /\ getitem(obj[last.docs[1]].items, "_rev") = last.results[1].rev
  /\ getitem(obj[last.docs[1]].items, "_id") = last.results[1].id
  /\ "_rev" \notin DOMAIN obj[last.docs[2]].items

\* A view query was sent.
ViewQuerySent == last.op \in {"Database.query_view", "Database.view"} /\ last.nreq > 0

\* C11: every view query whose include_docs is true carries reduce=false,
\* whatever the caller's reduce (None, True or False); reduce=true is never
\* sent together with include_docs=true.
C11_IncludeDocsForcesReduce ==
  ViewQuerySent
    => LET params == last.sent.params
       IN /\ truth(arg(last.kwargs, query_view_defaults, "include_docs"))
               => "reduce" \in DOMAIN params /\ params["reduce"] = "false"
          /\ ~ /\ {"reduce", "include_docs"} \subseteq DOMAIN params
               /\ params["reduce"] = "true"
               /\ params["include_docs"] = "true"

C11_Witness ==
  /\ last.op = "Database.query_view"
  /\ last.status = 200
  /\ {"include_docs", "reduce"} \subseteq DOMAIN last.kwargs
  /\ last.kwargs["include_docs"] = True
  /\ last.kwargs["reduce"] = True
  /\ last.sent.params["reduce"] = "false"
  /\ last.sent.params["include_docs"] = "true"

\* C12: in every view query, each of key, keys, startkey, endkey that the
\* caller supplies is sent as the JSON text of the caller's value (the str
\* foo as "foo" with its quotes, never as the raw foo), and one that the
\* caller does not supply is not sent.
C12_KeysJsonEncoded ==
  ViewQuerySent
    => \A n \in KeyNames :
         LET v == arg(last.kwargs, query_view_defaults, n)
             params == last.sent.params
         IN IF v = None THEN n \notin DOMAIN params
            ELSE /\ n \in DOMAIN params
                 /\ v.t = "str" => params[n] = "\"" \o v.s \o "\"" /\ params[n] # v.s
                 /\ v.t = "int" => params[n] = ToString(v.i)
                 /\ v.t = "list" => params[n] = "[\"" \o v.s \o "\"]"

C12_Witness ==
  /\ last.op = "Database.query_view"
  /\ last.status = 200
  /\ DOMAIN last.kwargs = {"key", "endkey"}
  /\ last.kwargs["key"] = Str("foo")
  /\ DOMAIN last.sent.params = {"key", "endkey"}
  /\ last.sent.params["key"] = "\"foo\""

\* The JSON text of a Python bool.
JsonBool(v) == IF v = True THEN "true" ELSE "false"

\* C13 as claimed: each boolean flag of query_view and of Database.get is
\* absent from the request when the caller does not give it, and present
\* with the caller's value, as true or false, whenever the caller gives it.
C13_FlagsSentAsGiven ==
  /\ ViewQuerySent
       => \A n \in FlagNames :
            IF n \in DOMAIN last.kwargs /\ last.kwargs[n] # None
            THEN /\ n \in DOMAIN last.sent.params
                 /\ last.sent.params[n] = JsonBool(last.kwargs[n])
            ELSE n \notin DOMAIN last.sent.params
  /\ last.op = "Database.get"
       => \A n \in GetFlagNames :
            IF n \in DOMAIN last.kwargs /\ last.kwargs[n] # None
            THEN /\ n \in DOMAIN last.sent.params
                 /\ last.sent.params[n] = JsonBool(last.kwargs[n])
            ELSE n \notin DOMAIN last.sent.params

\* C13 as amended: Database.get sends each of its boolean flags exactly
\* when the caller gives it, as true or false.  query_view sends sorted
\* only when it is False (as false), descending, group and include_docs
\* only when they are True (as true), and reduce when the caller gives it
\* or include_docs is True: as false when include_docs is True, else as the
\* caller's value.  A flag given with its default value is not sent.
C13_FlagsSentWhenNotDefault ==
  /\ ViewQuerySent
       => LET params == last.sent.params
              a(n) == arg(last.kwargs, query_view_defaults, n)
          IN /\ "sorted" \in DOMAIN params <=> a("sorted") = False
             /\ "sorted" \in DOMAIN params => params["sorted"] = "false"
             /\ \A n \in {"descending", "group", "include_docs"} :
                  /\ n \in DOMAIN params <=> a(n) = True
                  /\ n \in DOMAIN params => params[n] = "true"
             /\ "reduce" \in DOMAIN params
                  <=> (a("reduce") # None \/ a("include_docs") = True)
             /\ "reduce" \in DOMAIN params
                  => params["reduce"] = IF a("include_docs") = True THEN "false"
                                        ELSE JsonBool(a("reduce"))
  /\ last.op = "Database.get"
       => \A n \in GetFlagNames :
            IF n \in DOMAIN last.kwargs /\ last.kwargs[n] # None
            THEN /\ n \in DOMAIN last.sent.params
                 /\ last.sent.params[n] = JsonBool(last.kwargs[n])
            ELSE n \notin DOMAIN last.sent.params

\* sorted=True and descending=False were given and neither was sent.
C13_Witness ==
  /\ last.op = "Database.query_view"
  /\ last.status = 200
  /\ DOMAIN last.kwargs = {"sorted", "descending", "reduce"}
  /\ last.kwargs["sorted"] = True
  /\ last.kwargs["descending"] = False
  /\ last.kwargs["reduce"] = False
  /\ DOMAIN last.sent.params = {"reduce"}
  /\ last.sent.params["reduce"] = "false"

\* C14: query_view sends update unchanged when it is "true", "false" or
\* "lazy", sends no update parameter when update is not given, and for any
\* other value raises before it has sent a request.
C14_UpdateValidated ==
  last.op \in {"Database.query_view", "Database.view"}
    => LET update == arg(last.kwargs, query_view_defaults, "update")
       IN IF update = None
          THEN last.nreq > 0 => "update" \notin DOMAIN last.sent.params
          ELSE IF update \in {Str("true"), Str("false"), Str("lazy")}
          THEN /\ last.nreq > 0 => /\ "update" \in DOMAIN last.sent.params
                                   /\ last.sent.params["update"] = update.s
               /\ last.op = "Database.query_view" => last.nreq = 1
          ELSE /\ last.raised
               /\ last.nreq = 0
               /\ last.status = 0
               /\ last.exc.cls \in {"AssertionError", "ValueError"}
               /\ last.op = "Database.query_view" => last.exc.cls = "AssertionError"

C14_Witness ==
  /\ last.op = "Database.query_view"
  /\ "update" \in DOMAIN last.kwargs
  /\ last.kwargs["update"] = Str("yes")
  /\ last.raised
  /\ last.exc.cls = "AssertionError"
  /\ last.nreq = 0

\* The text of the segments of a path, joined with '/'.
RECURSIVE JoinPath(_)
JoinPath(segs) ==
  IF Len(segs) = 0 THEN ""
  ELSE IF Len(segs) = 1 THEN segs[1]
  ELSE segs[1] \o "/" \o JoinPath(Tail(segs))

\* The request that view(name) must make: for a name with a leading
\* underscore the path /{db}/{name}; else the name is cut at its first '/'
\* and the path is /{db}/_design/{ddoc}/_view/{view}.
ViewPathFor(name, path) ==
  IF Len(name) > 0 /\ name[1] = "_"
  THEN path[1] = DbName /\ JoinPath(Tail(path)) = text(name)
  ELSE \E i \in 1..Len(name) :
         /\ name[i] = "/"
         /\ \A j \in 1..(i - 1) : name[j] # "/"
         /\ path = <<DbName, "_design", text(SubSeq(name, 1, i - 1)), "_view",
                     text(SubSeq(name, i + 1, Len(name)))>>

\* view(name, **options) was rejected on account of its options.
OptionsRejected ==
  LET update == arg(last.kwargs, query_view_defaults, "update")
  IN update # None /\ update \notin {Str("true"), Str("false"), Str("lazy")}

\* C15 as claimed: for every name, view(name, **options) requests
\* /{db}/{name} when the name starts with an underscore and
\* /{db}/_design/{ddoc}/_view/{view}, the name cut at its first '/',
\* otherwise, with exactly the caller's options as the query.
C15_ViewRequested ==
  (last.op = "Database.view" /\ ~OptionsRejected)
    => /\ last.nreq = 1
       /\ ViewPathFor(last.name, last.sent.path)
       /\ last.sent.params = Database_query_view_params(last.kwargs)

\* C15 as amended: as claimed for a name that starts with an underscore or
\* holds a '/'; for a name that does neither (the empty name too) view
\* raises ValueError and sends no request.
C15_ViewRequestedOrValueError ==
  (last.op = "Database.view" /\ ~OptionsRejected)
    => IF startswith(last.name, "_") \/ \E i \in 1..Len(last.name) : last.name[i] = "/"
       THEN /\ last.nreq = 1
            /\ ViewPathFor(last.name, last.sent.path)
            /\ last.sent.method = "GET"
            /\ last.sent.params = Database_query_view_params(last.kwargs)
       ELSE /\ last.raised
            /\ last.exc.cls = "ValueError"
            /\ last.nreq = 0
            /\ last.status = 0

C15_Witness ==
  /\ last.op = "Database.view"
  /\ last.name = <<"d", "/", "v", "/", "w">>
  /\ last.nreq = 1
  /\ last.sent.path = <<"db", "_design", "d", "_view", "v/w">>
  /\ last.sent.params = [n \in {"key"} |-> "\"foo\""]

\* C16: a view response with n rows is decoded to a ViewResult of n Rows in
\* the server's order, each with the id, key and value of its entry and
\* with doc absent when the documents were not requested, and with the
\* total_rows and offset of the response.
C16_RowsDecoded ==
  (ViewQuerySent /\ last.status = 200)
    => /\ ~last.raised
       /\ last.ret = "ViewResult"
       /\ LET rows == view_rows(srv, 1, "include_docs" \in DOMAIN last.sent.params)
          IN /\ Len(last.value.rows) = Len(rows)
             /\ \A i \in 1..Len(rows) :
                  /\ last.value.rows[i][1] = rows[i].id
                  /\ last.value.rows[i][2] = rows[i].key
                  /\ last.value.rows[i][3] = rows[i].value
                  /\ last.value.rows[i][4] = getitem(rows[i], "doc")
             /\ last.value.total_rows = doc_count(srv)
             /\ last.value.offset = 0

\* C17: put_attachment sends the document's _rev as the If-Match header,
\* and when the server answers 409 because that is not the document's
\* current revision, the call raises UpdateConflict.
C17_AttachmentConflict ==
  (last.op = "Database.put_attachment" /\ last.nreq = 1)
    => /\ last.status # 201
            => last.sent.headers["If-Match"] = ToString(obj[last.o].items["_rev"])
       /\ last.status = 409 => last.raised /\ last.exc.cls = "UpdateConflict"

\* C18: get_attachment, given a document id or a document, returns a
\* stream at position 0 over exactly the bytes of the attachment when the
\* revision it asks for (the document's current one when it names none)
\* has the attachment, and returns the caller's default, without raising,
\* when the document or the attachment does not exist.
C18_AttachmentOrDefault ==
  (last.op = "Database.get_attachment" /\ last.nreq = 1 /\ last.net = "none"
     /\ last.status \in {200, 404})
    => LET rev == last.sent.rev
           k == IF rev = 0 THEN srv.docs[last.id].rev ELSE rev
       IN /\ last.o # ""
               => /\ last.id = obj[last.o].items["_id"]
                  /\ rev = IF last.kwargs["rev"] # 0 THEN last.kwargs["rev"]
                           ELSE getitem(obj[last.o].items, "_rev")
          /\ last.o = "" => rev = last.kwargs["rev"]
          /\ ~last.raised
          /\ IF HasAttachment(srv, last.id, last.name, rev)
             THEN /\ last.ret = "BytesIO"
                  /\ last.value = [content |-> srv.atts[last.id][k], pos |-> 0]
                  /\ last.value.content \in {c.bytes : c \in Contents}
             ELSE /\ last.ret = last.arg
                  /\ last.value = <<>>

\* The attachment of the caller's document was read through the document,
\* and a default was returned for a name that the document has not.
C18_Witness ==
  /\ last.op = "Database.get_attachment"
  /\ last.o = "o1"
  /\ last.status = 200
  /\ last.ret = "BytesIO"
  /\ last.value = [content |-> "b2", pos |-> 0]
  /\ srv.atts[last.id][srv.docs[last.id].rev] = "b2"

\* next(g) has returned an element or has raised.
NextDone == last.op = "next" /\ pc.op = ""

\* C19 as claimed: revisions(id) sends no request when it is called; every
\* element, the first too, costs exactly one request; the revisions come
\* newest first; and the sequence ends with StopIteration, not with an
\* error, when the server reports the document or a revision missing and
\* when the revisions are used up.
C19_OneRequestPerElement ==
  /\ last.op = "Database.revisions" => last.nreq = 0 /\ gen.at = "created"
  /\ (NextDone /\ ~last.raised)
       => /\ last.ret = "Document"
          /\ last.nreq = 1
          /\ last.rrev = gen.startrev - gen.index + 1
  /\ (NextDone /\ last.raised /\ last.net = "none" /\ last.status \in {0, 200, 404})
       => last.exc.cls = "StopIteration" /\ gen.at = "finished"

\* C19 as amended: as claimed, but the first element costs two requests
\* (the history, then the newest revision) and every later element one;
\* the end of the sequence costs no request when the revisions are used
\* up, and else the one or two requests up to the 404 that ends it.
C19_LazyRevisions ==
  /\ last.op = "Database.revisions" => last.nreq = 0 /\ gen.at = "created"
  /\ (NextDone /\ ~last.raised)
       => /\ last.ret = "Document"
          /\ last.nreq = IF gen.index = 1 THEN 2 ELSE 1
          /\ last.rrev = gen.startrev - gen.index + 1
          /\ last.rid = gen.id
          /\ last.sent.params = [k \in {"rev"} |-> ToString(last.rrev)]
          /\ gen.at = "loop"
  /\ (NextDone /\ last.raised /\ last.net = "none" /\ last.status \in {0, 200, 404})
       => /\ last.exc.cls = "StopIteration"
          /\ gen.at = "finished"
          /\ last.status = 0 <=> last.nreq = 0
          /\ last.status = 404 <=> last.nreq \in {1, 2}
  /\ (NextDone /\ last.raised /\ last.exc.cls # "StopIteration")
       => gen.at = "finished" /\ (last.net # "none" \/ last.status = 500)

\* The second element of a history of two revisions: one request.
C19_Witness ==
  /\ NextDone
  /\ last.ret = "Document"
  /\ gen.index = 2
  /\ gen.ids = 2
  /\ last.nreq = 1
  /\ last.rrev = 1

\* The last request of the running operation failed: in the transport, or
\* with an error status.
RequestFailed == last.nreq > 0 /\ (last.net # "none" \/ last.status >= 400)

\* The step sends a request of the operation that is running.
FurtherRequest == pc.op # "" /\ last'.op = last.op /\ last'.nreq = last.nreq + 1

\* C20 as claimed: in no operation of Server and Database is a failed
\* request followed by a further request of the same operation.
C20_NoFurtherRequest == [][RequestFailed => ~FurtherRequest]_vars

\* C20 as amended: a failed request is followed by a further request of the
\* same operation in one case only, which does happen: when the server
\* answers 404 to the HEAD that begins Server.add_user, add_user goes on to
\* create the database with a PUT.
C20_NoRecoveryButAddUser ==
  [][/\ (RequestFailed /\ FurtherRequest)
          => /\ last.op = "Server.add_user"
             /\ last.nreq = 1
             /\ last.net = "none" /\ last.status = 404
             /\ last'.sent.method = "PUT" /\ last'.sent.id = 0
     /\ (Idle /\ last'.op = "Server.add_user" /\ last'.net = "none"
           /\ last'.status = 404)
          => pc'.op = "Server.add_user: create"
     /\ (RequestFailed /\ last.op # "Server.add_user") => pc.op = ""]_vars

\* add_user found no database, created it and saved the user: four requests.
C20_Witness ==
  /\ last.op = "Server.add_user"
  /\ pc.op = ""
  /\ last.nreq = 4
  /\ ~last.raised
  /\ last.ret = "tuple"
  /\ Live(srv, last.id)

\* A call of version_info on Server s begins now.
VersionInfoCalled(s) ==
  Idle /\ last'.op = "Server.version_info" /\ last'.o = s

\* C22: a call of version_info on a Server whose earlier call returned a
\* value sends no request and returns that same tuple, whatever version
\* the server reports by now; a call on a Server that holds no value sends
\* one request, keeps the tuple it returns, and keeps nothing when it
\* raises.
C22_VersionInfoCached ==
  [][\A s \in ServerNames :
       VersionInfoCalled(s)
         => IF servers[s]._version_info # <<>>
            THEN /\ last'.nreq = 0
                 /\ ~last'.raised
                 /\ last'.value = servers[s]._version_info
                 /\ servers' = servers
            ELSE /\ last'.nreq = 1
                 /\ last'.raised => servers'[s]._version_info = <<>>
                 /\ ~last'.raised
                      => /\ last'.value = version_tuple(version)
                         /\ servers'[s]._version_info = last'.value]_vars

\* version_info answered from what it kept, after the server changed its
\* version.
C22_Witness ==
  /\ last.op = "Server.version_info"
  /\ last.nreq = 0
  /\ last.value = <<2, 3, 1>>
  /\ version = <<"3", ".", "0", ".", "0">>

\* C24: every request of a Server object goes to that object's own url,
\* also when two Server objects were given the same session.
C24_RequestsToOwnUrl ==
  (last.op \in {"Server.version", "Server.version_info"} /\ last.nreq = 1)
    => last.sent.path = <<servers[last.o]._url, "/">>

\* A call of Server or Database has returned or raised.
CallDone == last.op # "" /\ pc.op = ""

Sequences_ ==
  {"Server.create", "Database.__delitem__", "Server.add_user", "Server.remove_user"}

\* The most requests that a call of op sends, and how many it has sent
\* when it returns without raising.
MostRequests(op) ==
  CASE op = "Server.create" -> 2
    [] op = "Database.__delitem__" -> 2
    [] op = "Server.add_user" -> 4
    [] op = "Server.remove_user" -> 3
    [] OTHER -> 1

ReturnsAfter(op) == IF op = "Server.add_user" THEN {2, 4} ELSE {MostRequests(op)}

DelItemDeletes ==
  /\ pc.op = "Database.__delitem__"
  /\ last'.nreq = 2
  /\ last'.net = "none"
  /\ last'.status # 500

\* C25: when the document exists with another revision than the one that
\* the HEAD of del db[id] saw, the DELETE names the revision of the HEAD,
\* the server rejects it, del db[id] raises a conflict error and the
\* document is left as the other client wrote it.
C25_DelItemRace ==
  [][(DelItemDeletes /\ Live(srv, pc.id) /\ srv.docs[pc.id].rev # pc.rev)
       => /\ last'.sent.rev = pc.rev
          /\ last'.status = 409
          /\ last'.raised
          /\ isinstance(last'.exc, "HTTPConflict")
          /\ srv' = srv
          /\ Live(srv', pc.id)]_vars

\* del db[id] has raised the conflict; the document has a later revision
\* than the one its DELETE named.
C25_Witness ==
  /\ CallDone
  /\ last.op = "Database.__delitem__"
  /\ last.nreq = 2
  /\ last.status = 409
  /\ Live(srv, last.id)
  /\ srv.docs[last.id].rev > last.sent.rev

\* C26: when the PUT of Server.create succeeded, create returns a Database
\* exactly if the database exists when its HEAD is answered, and raises
\* MissingDatabase if it was deleted in between.
C26_CreateThenCheck ==
  (CallDone /\ last.op = "Server.create" /\ last.nreq = 2 /\ last.net = "none"
     /\ last.status # 500)
    => /\ last.sent.method = "HEAD"
       /\ srv.exists <=> (~last.raised /\ last.ret = "Database")
       /\ ~srv.exists <=> (last.raised /\ last.exc.cls = "MissingDatabase")

\* create made the database and raised MissingDatabase.
C26_Witness ==
  /\ CallDone
  /\ last.op = "Server.create"
  /\ last.nreq = 2
  /\ last.raised
  /\ last.exc.cls = "MissingDatabase"
  /\ ~srv.exists

\* A call of one of the operations that are not implemented.
StubCalled == \E name \in Stubs : last.op = "Database." \o name

\* C23 as claimed: each of changes, show, list, update_doc, index and
\* iterview raises NotImplementedError at the call, whatever its arguments,
\* and sends no request.
C23_StubsRaiseAtCall ==
  StubCalled
    => last.raised /\ last.exc.cls = "NotImplementedError" /\ last.nreq = 0

\* C23 as amended: changes, show, list, update_doc and index raise
\* NotImplementedError at the call; iterview, a generator function, returns
\* a generator at the call and raises NotImplementedError at the first
\* next() of it; none of them sends a request.
C23_StubsUnsupported ==
  /\ (StubCalled /\ last.op # "Database.iterview")
       => last.raised /\ last.exc.cls = "NotImplementedError" /\ last.nreq = 0
  /\ last.op = "Database.iterview"
       => ~last.raised /\ last.ret = "generator" /\ last.nreq = 0
             /\ gen.at = "iterview: created"
  /\ last.op = "next of iterview"
       => /\ last.raised
          /\ last.nreq = 0
          /\ last.exc.cls \in {"NotImplementedError", "StopIteration"}

\* The first next() of the generator of iterview has raised.
C23_Witness ==
  /\ last.op = "next of iterview"
  /\ last.exc.cls = "NotImplementedError"
  /\ srv.docs[1].rev > 0

\* C28: every DELETE of delete_attachment, with batch or without, carries
\* the document's _rev as its rev parameter, and after a successful
\* response the document's _rev is the revision that the server returned.
C28_DeleteAttachmentSendsRev ==
  (last.op = "Database.delete_attachment" /\ last.nreq = 1)
    => /\ "rev" \in DOMAIN last.sent.params
       /\ last.raised
            => last.sent.params["rev"] = ToString(obj[last.o].items["_rev"])
       /\ ~last.raised
            => /\ obj[last.o].items["_rev"] = last.rrev
               /\ last.rrev = srv.docs[last.id].rev

\* The operations that write _id and _rev into the caller's documents.
Writers ==
  {"Database.save", "Database.__setitem__", "Database.put_attachment",
   "Database.delete_attachment", "Database.update"}

\* A call of one of them is made now.
WriterCalled == Idle /\ last'.op \in Writers

\* C27: a call of save, db[id] = doc, put_attachment, delete_attachment or
\* update that raises leaves every document of the caller as it was; a
\* document changes only in a call that got a successful response.
C27_FailedWriteLeavesDocuments ==
  [][WriterCalled
       => /\ last'.raised => obj' = obj
          /\ obj' # obj
               => /\ ~last'.raised
                  /\ last'.net = "none"
                  /\ last'.status \in 200..299]_vars

\* save has raised UpdateConflict for a document that another client
\* wrote since; the caller's document still holds the revision it had.
C27_Witness ==
  /\ last.op = "Database.save"
  /\ last.raised
  /\ last.exc.cls = "UpdateConflict"
  /\ obj["o1"].items["_rev"] = 1
  /\ srv.docs[obj["o1"].items["_id"]].rev = 2

\* The call that is made now is one that the client itself must reject.
MustReject ==
  \/ /\ last'.op \in {"Database.update", "Database.purge"}
     /\ \E i \in 1..Len(last'.docs) : last'.docs[i] \notin Objs
  \/ /\ last'.op = "Database.copy"
     /\ "other" \in {last'.kwargs["src"], last'.kwargs["dest"]}
  \/ /\ last'.op = "Database.delete"
     /\ "doc" \in DOMAIN last'.kwargs
     /\ getitem(last'.kwargs["doc"], "_id") = 0
     /\ "_id" \in DOMAIN last'.kwargs["doc"]
  \/ /\ last'.op = "Database.put_attachment"
     /\ last'.arg = ""
     /\ last'.kwargs["content.name"] = ""

RejectedWith ==
  IF last'.op \in {"Database.update", "Database.purge", "Database.copy"}
  THEN "TypeError" ELSE "ValueError"

C30_VerbHelpers ==
  last.op = "Session.verb"
    => /\ last.nreq = 1
       /\ last.sent.method = upper(last.arg)
       /\ last.sent.url = <<last.kwargs["url"]>>
       /\ \A k \in {"data", "json", "timeout"} : last.sent[k] = last.kwargs[k]
       /\ ~last.raised => last.ret = "Response" /\ last.value.status = last.status

====
